---------------------------- MODULE Spec2Model ----------------------------
(***************************************************************************)
(* kkp: kill processes by port.  A model of the safety classifier          *)
(* (core/safety.ts), the POSIX and Windows killers (core/killer), the      *)
(* orchestrator's kill paths (cli.ts) and the interactive selection engine *)
(* (ui/tui.ts).                                                            *)
(*                                                                         *)
(* Strings the code inspects per character (process names, commands) are   *)
(* sequences of one-character strings, so toLowerCase, ===, endsWith and   *)
(* includes are computed as the code computes them.  Strings the code only *)
(* passes around (reasons, methods, error codes) are TLA+ strings.         *)
(***************************************************************************)
EXTENDS Integers, Sequences, FiniteSets, TLC

VARIABLES
  platform,     \* process.platform as seen through utils/platform.ts
  tkenv,        \* what the taskkill runs of one kill settle with, in order, on a
                \* machine that fixes it; <<>> where every run may settle anyhow
  protInput,    \* the Listener handed to protectionFor (classifier harness)
  protOut,      \* the Protection it returned, or NoVerdict before the call
  \* ---- the operating system's processes
  proc,         \* pid -> what the process is ("unknown" until first observed)
  log,          \* every signal send (signal # 0) and external command, in order
  diedDuring,   \* where the killer stood when the pid argument of kill exited
  \* ---- one Killer.kill call
  kpc,          \* position inside kill / killSingle / waitForExit
  kroot,        \* the pid argument of kill
  kcur,         \* the pid argument of the running killSingle
  ktimeout,     \* timeoutMs = Math.max(0, options.timeoutMs ?? 0)
  ktree,        \* options.tree === true
  kforce,       \* options.force
  elapsed,      \* Date.now() - start of the running waitForExit
  bfsQ,         \* listDescendants: q
  bfsSeen,      \* listDescendants: seen
  bfsOut,       \* listDescendants: out
  killQ,        \* descendants still to be killed, in kill order
  kalive,       \* what isAlive(pid) returned at the entry of kill
  kres,         \* the KillResult returned by kill (NoResult until it returns)
  \* ---- one run of the command line (cli.ts main)
  force,        \* flags.force
  dryRun,       \* flags.dryRun
  timeoutMs,    \* flags.timeoutMs
  flagPid,      \* flags.pid (NoPid: not given)
  flagName,     \* the process name asked for (Undefined: none)
  flagPorts,    \* the ports asked for, in order
  allowed,      \* allowedProtocols = resolveProtocols(flags)
  mode,         \* which branch of main runs: "pid", "ports", "names", "tui"
  parsed,       \* the listening sockets as the finder's parser returns them
  enriched,     \* whether enrichWindows gets process names (win32 listAll)
  batch,        \* killResolvedListeners: the listeners argument
  ballowed,     \* killResolvedListeners: the allowedProtocols argument
  cpc,          \* position inside main / killResolvedListeners
  idx,          \* position of the kill loop in `unique` (1-based)
  perPid,       \* killResolvedListeners: the perPid map
  killCalls,    \* the pids killer.kill was invoked with, in order
  refusal,      \* the refusal written by the --pid branch
  reports,      \* the result lines written, in order
  exitCode,     \* process.exitCode (0: never set)
  \* ---- one selection session (ui/tui.ts selectListeners)
  tinput,       \* the listeners argument
  items,        \* items: deduplicated and sorted
  index,        \* state.index
  top,          \* state.top
  selected,     \* state.selected
  rows,         \* stdout.rows (0: undefined)
  tdone,        \* state.done
  tresult,      \* what the session resolved with
  tty,          \* stdin.isTTY and stdout.isTTY
  tpc,          \* position of selectListeners: "called", "active", "returned"
  term,         \* the terminal: raw mode, screen, cursor, stdin, the two handlers
  tlog,         \* the session's terminal effects, the event that ended it and
                \* the resolution of its promise, in order
  late,         \* events that arrived with no handler of the session installed
  \* ---- one text handed to a parser and to the deduplication
  ppc,          \* "input", "parsed", "deduped"
  ptool,        \* the tool whose parser runs: "ss", "lsof", "netstat"
  pproto,       \* the protocol argument of parseSs and parseNetstat
  ptext,        \* stdout of the tool
  pout,         \* what the parser returned
  pdd,          \* dedupe of pout, of pout twice over, and of its own result
  \* ---- one Finder call (core/finder)
  fop,          \* the call: listAll(), or findByPort(port, {protocols})
  installed,    \* the external commands that exist on the machine
  procfs,       \* whether /proc/<pid> can be read (linux)
  fpc,          \* the command the call is about to run, or how it ended
  fq,           \* the sub-query about to run: "tcp" or "udp"
  fout,         \* the rows collected so far, in tool-output order
  fres,         \* the list the call returned
  ferr,         \* the error the call threw ("none": none)
  execs,        \* every execFile invocation of the call, in order
  \* ---- enrichFromProc(listeners) on the rows of fout
  etask,          \* per pid: where its task stands, and what it has read
  uidCacheLoaded, \* uidCacheLoaded.value
  uidToUser       \* the uid -> username map, as a set of <<uid, name>>

protVars == <<protInput, protOut>>
envVars  == <<proc, log, diedDuring>>
killVars == <<kpc, kroot, kcur, ktimeout, ktree, kforce, elapsed,
              bfsQ, bfsSeen, bfsOut, killQ, kalive, kres>>
flagVars == <<force, dryRun, timeoutMs, flagPid, flagName, flagPorts, allowed, mode,
              parsed, enriched>>
cliVars  == <<batch, ballowed, cpc, idx, perPid, killCalls, refusal, reports, exitCode>>

tuiVars  == <<tinput, items, index, top, selected, rows, tdone, tresult,
              tty, tpc, term, tlog, late>>

parseVars == <<ppc, ptool, pproto, ptext, pout, pdd>>

finderVars == <<fop, installed, procfs, fpc, fq, fout, fres, ferr, execs,
                etask, uidCacheLoaded, uidToUser>>

vars == <<platform, tkenv, protVars, envVars, killVars, flagVars, cliVars, tuiVars, parseVars,
          finderVars>>

-----------------------------------------------------------------------------
(* Strings as character sequences *)

Undefined == <<"undefined">>   \* JS undefined for an optional string field

UpperChars == <<"A","B","C","D","E","F","G","H","I","J","K","L","M",
                "N","O","P","Q","R","S","T","U","V","W","X","Y","Z">>

LowerChars == <<"a","b","c","d","e","f","g","h","i","j","k","l","m",
                "n","o","p","q","r","s","t","u","v","w","x","y","z">>

ToLowerChar(c) ==
  IF \E i \in 1..Len(UpperChars) : UpperChars[i] = c
  THEN LowerChars[CHOOSE i \in 1..Len(UpperChars) : UpperChars[i] = c]
  ELSE c

ToLowerCase(s) == [i \in 1..Len(s) |-> ToLowerChar(s[i])]

\* String.prototype.includes
Includes(s, n) ==
  \E i \in 0..(Len(s) - Len(n)) : SubSeq(s, i + 1, i + Len(n)) = n

\* String.prototype.endsWith
EndsWith(s, n) ==
  /\ Len(n) <= Len(s)
  /\ SubSeq(s, Len(s) - Len(n) + 1, Len(s)) = n

\* a ?? b
Coalesce(a, b) == IF a = Undefined THEN b ELSE a

\* a string that is neither undefined nor empty
Truthy(str) == str # Undefined /\ str # <<>>

-----------------------------------------------------------------------------
(* utils/platform.ts and core/safety.ts *)

Platforms == {"win32", "linux"}

POSIX_PROTECTED_NAMES == <<
  <<"s","y","s","t","e","m","d">>,
  <<"l","a","u","n","c","h","d">>,
  <<"i","n","i","t">>,
  <<"k","e","r","n","e","l","_","t","a","s","k">>,
  <<"k","t","h","r","e","a","d","d">>,
  <<"s","y","s","t","e","m","d","-","j","o","u","r","n","a","l","d">>,
  <<"s","y","s","t","e","m","d","-","l","o","g","i","n","d">>,
  <<"s","s","h","d">> >>

WINDOWS_PROTECTED_NAMES == <<
  <<"s","y","s","t","e","m">>,
  <<"s","y","s","t","e","m"," ","i","d","l","e"," ","p","r","o","c","e","s","s">>,
  <<"r","e","g","i","s","t","r","y">>,
  <<"s","m","s","s",".","e","x","e">>,
  <<"c","s","r","s","s",".","e","x","e">>,
  <<"w","i","n","i","n","i","t",".","e","x","e">>,
  <<"s","e","r","v","i","c","e","s",".","e","x","e">>,
  <<"l","s","a","s","s",".","e","x","e">>,
  <<"w","i","n","l","o","g","o","n",".","e","x","e">>,
  <<"s","v","c","h","o","s","t",".","e","x","e">> >>

SSHD_SIGNATURE == <<"s","s","h","d">>   \* the regular expression /sshd/

NoVerdict == [protected |-> FALSE, reason |-> "not-called"]

\* const name = (l.processName ?? l.command ?? '').toLowerCase()
ProtName(l) == ToLowerCase(Coalesce(l.processName, Coalesce(l.command, <<>>)))

WindowsNameHit(name) ==
  \E i \in 1..Len(WINDOWS_PROTECTED_NAMES) :
     LET n == WINDOWS_PROTECTED_NAMES[i]
     IN  \/ name = n
         \/ EndsWith(name, <<"\\">> \o n)
         \/ Includes(name, n)

PosixNameHit(name) ==
  \E i \in 1..Len(POSIX_PROTECTED_NAMES) :
     LET n == POSIX_PROTECTED_NAMES[i]
     IN  name = n \/ Includes(name, n)

\* protectionFor with the PID rule of non-Windows platforms weakened from
\* pid <= 1 to pid < 1
ProtectionFor_PidOffByOne(l) ==
  LET name == ProtName(l)
  IN  IF platform # "win32" /\ l.pid < 1
        THEN [protected |-> TRUE, reason |-> "pid 1 (system init)"]
      ELSE IF platform = "win32" /\ (l.pid = 0 \/ l.pid = 4)
        THEN [protected |-> TRUE, reason |-> "system process"]
      ELSE IF platform = "win32" /\ WindowsNameHit(name)
        THEN [protected |-> TRUE, reason |-> "critical Windows process"]
      ELSE IF platform # "win32" /\ PosixNameHit(name)
        THEN [protected |-> TRUE, reason |-> "critical system process"]
      ELSE IF l.port = 22 /\ Includes(name, SSHD_SIGNATURE)
        THEN [protected |-> TRUE, reason |-> "sshd (avoid locking yourself out)"]
      ELSE [protected |-> FALSE, reason |-> "undefined"]

ProtectionFor(l) ==
  LET name == ProtName(l)
  IN  IF platform # "win32" /\ l.pid <= 1
        THEN [protected |-> TRUE, reason |-> "pid 1 (system init)"]
      ELSE IF platform = "win32" /\ (l.pid = 0 \/ l.pid = 4)
        THEN [protected |-> TRUE, reason |-> "system process"]
      ELSE IF platform = "win32" /\ WindowsNameHit(name)
        THEN [protected |-> TRUE, reason |-> "critical Windows process"]
      ELSE IF platform # "win32" /\ PosixNameHit(name)
        THEN [protected |-> TRUE, reason |-> "critical system process"]
      ELSE IF l.port = 22 /\ Includes(name, SSHD_SIGNATURE)
        THEN [protected |-> TRUE, reason |-> "sshd (avoid locking yourself out)"]
      ELSE [protected |-> FALSE, reason |-> "undefined"]

-----------------------------------------------------------------------------
(* Process names and command lines the model draws from *)

N_systemd == <<"s","y","s","t","e","m","d">>
N_sshd    == <<"s","s","h","d">>
N_node    == <<"n","o","d","e">>
N_System  == <<"S","y","s","t","e","m">>
N_svchost == <<"s","v","c","h","o","s","t",".","e","x","e">>
N_sshdExe == <<"s","s","h","d",".","e","x","e">>
N_empty   == <<>>
N_sshdCmd == <<"/","u","s","r","/","s","b","i","n","/","s","s","h","d"," ","-","D">>

Names == {N_systemd, N_sshd, N_node, N_System, N_svchost, N_sshdExe}

-----------------------------------------------------------------------------
(* The operating system's processes, as the killers observe them *)

MaxGracePolls == 2      \* grace windows of 0 .. MaxGracePolls sleeps
MaxChildren == 2        \* rows of one `ps --ppid` answer

PollMs == 30
ConfirmMs == 200

Pids == {0, 1, 4, 7, 8, 9}
TreePids == {7, 8, 9}   \* pids of the process trees of the killer harness

\* "dead":   no such process: process.kill fails with ESRCH
\* "noperm": the process exists and process.kill fails with EPERM
\* "alive":  the process exists and process.kill delivers the signal
\* A process that exists may exit at any moment, signalled or not; one that
\* never does is a process that survives every signal.
Kinds == {"dead", "noperm", "alive"}

\* The kinds a process observed now may turn out to have.
KindsOf(p) == IF proc[p] = "unknown" THEN Kinds ELSE {proc[p]}

\* errno of process.kill(pid, sig) on a process of kind kd ("ok": delivered)
Errno(kd) == IF kd = "dead" THEN "ESRCH" ELSE IF kd = "noperm" THEN "EPERM" ELSE "ok"

Delivered(p, sig) ==
  \E i \in 1..Len(log) : log[i].pid = p /\ log[i].op = sig /\ log[i].res = "ok"

MayExit(p) == proc[p] = "alive"

\* isAlive(pid): process.kill(pid, 0) succeeds, or fails with anything but ESRCH
IsAlive(kd) == Errno(kd) # "ESRCH"

LogEntry(p, op, res) == [pid |-> p, op |-> op, res |-> res, waited |-> elapsed]

\* Where the killer stands on process p when p exits: inside the grace window
\* of p's killSingle or inside its confirmation window, in both cases either
\* with a liveness poll of that window still to come or during the window's
\* last sleep (no poll follows); between the grace window and the SIGKILL
\* send; or elsewhere.
Phase(p) ==
  IF kcur # p THEN "other"
  ELSE IF kpc = "grace_probe" THEN "grace"
  ELSE IF kpc = "grace_sleep"
    THEN IF elapsed + PollMs < ktimeout THEN "grace" ELSE "grace-last"
  ELSE IF kpc = "kill" THEN "escalation"
  ELSE IF kpc = "confirm_probe" THEN "confirm"
  ELSE IF kpc = "confirm_sleep"
    THEN IF elapsed + PollMs < ConfirmMs THEN "confirm" ELSE "confirm-last"
  ELSE "other"

\* The process exits: concurrent with everything the killer does.  The model
\* lets it happen where the killer can tell the difference: an exit before the
\* first observation of p is the kind "dead" drawn at that observation, and an
\* exit while the killer is busy with other pids (the descendant enumeration,
\* another pid's killSingle) is the exit just before p's own killSingle.  The
\* Windows killer observes the process through taskkill's output alone, which
\* is drawn at each run.
ProcExit(p) ==
  /\ kpc \in {"term", "grace_probe", "grace_sleep", "kill", "confirm_probe", "confirm_sleep"}
  /\ p = kcur
  /\ MayExit(p)
  /\ proc' = [proc EXCEPT ![p] = "dead"]
  /\ diedDuring' = IF p = kroot THEN Phase(p) ELSE diedDuring
  /\ UNCHANGED <<platform, tkenv, protVars, log, killVars, flagVars, cliVars, tuiVars, parseVars, finderVars>>

\* The pid stops being the caller's to signal (its owner changes, or it exits
\* and the number goes to another user's process).  Placed between the grace
\* window and the SIGKILL send: during the window such a process answers the
\* liveness probe like one that stays, and before the SIGTERM send it is the
\* kind "noperm" drawn at that send.
ProcChangesOwner(p) ==
  /\ kpc = "kill"
  /\ p = kcur
  /\ proc[p] = "alive"
  /\ proc' = [proc EXCEPT ![p] = "noperm"]
  /\ UNCHANGED <<platform, tkenv, protVars, log, diedDuring, killVars, flagVars, cliVars, tuiVars, parseVars, finderVars>>

-----------------------------------------------------------------------------
(* core/killer/posix.ts *)

NoResult == [pid |-> -1, ok |-> FALSE, method |-> "none",
             message |-> "undefined", errorCode |-> "undefined"]

Result(p, ok, method, message, errorCode) ==
  [pid |-> p, ok |-> ok, method |-> method, message |-> message, errorCode |-> errorCode]

\* killSingle returns r: to the descendant loop of kill (which discards it and
\* goes on with the next descendant, then the root), or as kill's own result.
KillSingleReturns(r, waited) ==
  /\ elapsed' = IF kcur # kroot THEN 0 ELSE waited
  /\ IF kcur # kroot
     THEN /\ kpc' = "term"
          /\ kcur' = IF killQ # <<>> THEN Head(killQ) ELSE kroot
          /\ killQ' = IF killQ # <<>> THEN Tail(killQ) ELSE killQ
          /\ kres' = kres
     ELSE /\ kpc' = "done"
          /\ kres' = r
          /\ UNCHANGED <<kcur, killQ>>

\* PosixKiller.kill with the tree branch taken before the liveness check
PosixKillEntry_TreeFirst ==
  /\ kpc = "entry"
  /\ platform # "win32"
  /\ \E kd \in KindsOf(kroot) :
       /\ proc' = [proc EXCEPT ![kroot] = kd]
       /\ kalive' = IF IsAlive(kd) THEN "alive" ELSE "gone"
       /\ IF ktree
          THEN /\ kpc' = "tree"
               /\ bfsQ' = <<kroot>>
               /\ bfsSeen' = {}
               /\ bfsOut' = <<>>
               /\ kres' = kres
          ELSE IF ~IsAlive(kd)
          THEN /\ kpc' = "done"
               /\ kres' = Result(kroot, TRUE, "already-exited", "undefined", "undefined")
               /\ UNCHANGED <<bfsQ, bfsSeen, bfsOut>>
          ELSE /\ kpc' = "term"
               /\ UNCHANGED <<bfsQ, bfsSeen, bfsOut, kres>>
  /\ UNCHANGED <<platform, tkenv, protVars, log, diedDuring, flagVars, cliVars, tuiVars, parseVars, finderVars,
                 kroot, kcur, ktimeout, ktree, kforce, elapsed, killQ>>

\* PosixKiller.kill up to the first await: isAlive, the options, the tree branch
PosixKillEntry ==
  /\ kpc = "entry"
  /\ platform # "win32"
  /\ \E kd \in KindsOf(kroot) :
       /\ proc' = [proc EXCEPT ![kroot] = kd]
       /\ kalive' = IF IsAlive(kd) THEN "alive" ELSE "gone"
       /\ IF ~IsAlive(kd)
          THEN /\ kpc' = "done"
               /\ kres' = Result(kroot, TRUE, "already-exited", "undefined", "undefined")
               /\ UNCHANGED <<bfsQ, bfsSeen, bfsOut>>
          ELSE IF ktree
          THEN /\ kpc' = "tree"
               /\ bfsQ' = <<kroot>>
               /\ bfsSeen' = {}
               /\ bfsOut' = <<>>
               /\ kres' = kres
          ELSE /\ kpc' = "term"
               /\ UNCHANGED <<bfsQ, bfsSeen, bfsOut, kres>>
  /\ UNCHANGED <<platform, tkenv, protVars, log, diedDuring, flagVars, cliVars, tuiVars, parseVars, finderVars,
                 kroot, kcur, ktimeout, ktree, kforce, elapsed, killQ>>

Reverse(s) == [i \in 1..Len(s) |-> s[Len(s) + 1 - i]]

\* out.filter((p) => p !== rootPid)
WithoutRoot(s) == LET Keep(x) == x # kroot IN SelectSeq(s, Keep)

\* for (const c of children) if (!seen.has(c)) { out.push(c); q.push(c) }
RECURSIVE PushUnseen(_, _, _)
PushUnseen(children, seen, acc) ==
  IF children = <<>> THEN acc
  ELSE IF Head(children) \in seen THEN PushUnseen(Tail(children), seen, acc)
  ELSE PushUnseen(Tail(children), seen, Append(acc, Head(children)))

\* What one `ps -o pid= --ppid <pid>` may print: up to MaxChildren pids, none
\* twice, in any order (stale or cyclic data included: the pid asked about and
\* the root may appear).
PsAnswers ==
  {s \in UNION {[1..n -> TreePids] : n \in 0..MaxChildren} :
     \A i, j \in 1..Len(s) : s[i] = s[j] => i = j}

\* The descendant loop starts (or, without descendants, the root's killSingle).
StartKilling(children) ==
  /\ kpc' = "term"
  /\ kcur' = IF children # <<>> THEN Head(children) ELSE kroot
  /\ killQ' = IF children # <<>> THEN Tail(children) ELSE <<>>

\* TreeStep without the try/catch of kill around listDescendants: the
\* rejection of execFile leaves kill as a thrown error
TreeStep_Uncaught ==
  /\ kpc = "tree"
  /\ platform # "win32"
  /\ IF bfsQ = <<>>
     THEN /\ StartKilling(Reverse(WithoutRoot(bfsOut)))
          /\ UNCHANGED <<bfsQ, bfsSeen, bfsOut, log>>
     ELSE LET pid == Head(bfsQ) IN
          IF pid \in bfsSeen
          THEN /\ bfsQ' = Tail(bfsQ)
               /\ UNCHANGED <<bfsSeen, bfsOut, log, kpc, kcur, killQ>>
          ELSE \E failed \in BOOLEAN, children \in PsAnswers :
               IF failed
               THEN /\ children = <<>>
                    /\ log' = Append(log, LogEntry(pid, "ps", "throw"))
                    /\ kpc' = "thrown"
                    /\ bfsQ' = Tail(bfsQ)
                    /\ bfsSeen' = bfsSeen \cup {pid}
                    /\ UNCHANGED <<bfsOut, kcur, killQ>>
               ELSE /\ log' = Append(log, LogEntry(pid, "ps", "ok"))
                    /\ bfsSeen' = bfsSeen \cup {pid}
                    /\ bfsOut' = bfsOut \o PushUnseen(children, bfsSeen \cup {pid}, <<>>)
                    /\ bfsQ' = Tail(bfsQ) \o PushUnseen(children, bfsSeen \cup {pid}, <<>>)
                    /\ UNCHANGED <<kpc, kcur, killQ>>
  /\ UNCHANGED <<platform, tkenv, protVars, proc, diedDuring, flagVars, cliVars, tuiVars, parseVars, finderVars, kalive,
                 kroot, ktimeout, ktree, kforce, elapsed, kres>>

\* TreeStep with the descendants killed in the order of their discovery
TreeStep_DiscoveryOrder ==
  /\ kpc = "tree"
  /\ platform # "win32"
  /\ IF bfsQ = <<>>
     THEN /\ StartKilling(WithoutRoot(bfsOut))
          /\ UNCHANGED <<bfsQ, bfsSeen, bfsOut, log>>
     ELSE LET pid == Head(bfsQ) IN
          IF pid \in bfsSeen
          THEN /\ bfsQ' = Tail(bfsQ)
               /\ UNCHANGED <<bfsSeen, bfsOut, log, kpc, kcur, killQ>>
          ELSE \E failed \in BOOLEAN, children \in PsAnswers :
               IF failed
               THEN \* execFile rejects: listDescendants throws, kill catches
                    /\ children = <<>>
                    /\ log' = Append(log, LogEntry(pid, "ps", "throw"))
                    /\ StartKilling(<<>>)
                    /\ bfsQ' = Tail(bfsQ)
                    /\ bfsSeen' = bfsSeen \cup {pid}
                    /\ bfsOut' = bfsOut
               ELSE /\ log' = Append(log, LogEntry(pid, "ps", "ok"))
                    /\ bfsSeen' = bfsSeen \cup {pid}
                    /\ bfsOut' = bfsOut \o PushUnseen(children, bfsSeen \cup {pid}, <<>>)
                    /\ bfsQ' = Tail(bfsQ) \o PushUnseen(children, bfsSeen \cup {pid}, <<>>)
                    /\ UNCHANGED <<kpc, kcur, killQ>>
  /\ UNCHANGED <<platform, tkenv, protVars, proc, diedDuring, flagVars, cliVars, tuiVars, parseVars, finderVars, kalive,
                 kroot, ktimeout, ktree, kforce, elapsed, kres>>

\* listDescendants: one iteration of while (q.length), up to its await of
\* listChildren; the loop's exit when q is empty; the catch of kill when ps fails.
TreeStep ==
  /\ kpc = "tree"
  /\ platform # "win32"
  /\ IF bfsQ = <<>>
     THEN /\ StartKilling(Reverse(WithoutRoot(bfsOut)))
          /\ UNCHANGED <<bfsQ, bfsSeen, bfsOut, log>>
     ELSE LET pid == Head(bfsQ) IN
          IF pid \in bfsSeen
          THEN /\ bfsQ' = Tail(bfsQ)
               /\ UNCHANGED <<bfsSeen, bfsOut, log, kpc, kcur, killQ>>
          ELSE \E failed \in BOOLEAN, children \in PsAnswers :
               IF failed
               THEN \* execFile rejects: listDescendants throws, kill catches
                    /\ children = <<>>
                    /\ log' = Append(log, LogEntry(pid, "ps", "throw"))
                    /\ StartKilling(<<>>)
                    /\ bfsQ' = Tail(bfsQ)
                    /\ bfsSeen' = bfsSeen \cup {pid}
                    /\ bfsOut' = bfsOut
               ELSE /\ log' = Append(log, LogEntry(pid, "ps", "ok"))
                    /\ bfsSeen' = bfsSeen \cup {pid}
                    /\ bfsOut' = bfsOut \o PushUnseen(children, bfsSeen \cup {pid}, <<>>)
                    /\ bfsQ' = Tail(bfsQ) \o PushUnseen(children, bfsSeen \cup {pid}, <<>>)
                    /\ UNCHANGED <<kpc, kcur, killQ>>
  /\ UNCHANGED <<platform, tkenv, protVars, proc, diedDuring, flagVars, cliVars, tuiVars, parseVars, finderVars, kalive,
                 kroot, ktimeout, ktree, kforce, elapsed, kres>>

\* SendTerm with a refused send (any error but ESRCH) taken for a delivered one
SendTerm_IgnoresRefusal ==
  /\ kpc = "term"
  /\ \E kd \in KindsOf(kcur) :
       /\ proc' = [proc EXCEPT ![kcur] = kd]
       /\ log' = Append(log, [LogEntry(kcur, "SIGTERM", Errno(kd)) EXCEPT !.waited = 0])
       /\ IF Errno(kd) = "ESRCH"
          THEN KillSingleReturns(Result(kcur, TRUE, "already-exited", "undefined", "undefined"), 0)
          ELSE /\ kpc' = IF ktimeout > 0 THEN "grace_probe" ELSE "kill"
               /\ elapsed' = 0
               /\ UNCHANGED <<kcur, killQ, kres>>
  /\ UNCHANGED <<platform, tkenv, protVars, diedDuring, flagVars, cliVars, tuiVars, parseVars, finderVars, kalive,
                 kroot, ktimeout, ktree, kforce, bfsQ, bfsSeen, bfsOut>>

\* killSingle step 1: process.kill(pid, 'SIGTERM')
SendTerm ==
  /\ kpc = "term"
  /\ \E kd \in KindsOf(kcur) :
       /\ proc' = [proc EXCEPT ![kcur] = kd]
       /\ log' = Append(log, [LogEntry(kcur, "SIGTERM", Errno(kd)) EXCEPT !.waited = 0])
       /\ IF Errno(kd) = "ESRCH"
          THEN KillSingleReturns(Result(kcur, TRUE, "already-exited", "undefined", "undefined"), 0)
          ELSE IF Errno(kd) # "ok"
          THEN KillSingleReturns(Result(kcur, FALSE, "SIGTERM", "kill " \o Errno(kd), Errno(kd)), 0)
          ELSE /\ kpc' = IF ktimeout > 0 THEN "grace_probe" ELSE "kill"
               /\ elapsed' = 0
               /\ UNCHANGED <<kcur, killQ, kres>>
  /\ UNCHANGED <<platform, tkenv, protVars, diedDuring, flagVars, cliVars, tuiVars, parseVars, finderVars, kalive,
                 kroot, ktimeout, ktree, kforce, bfsQ, bfsSeen, bfsOut>>

\* The grace window's probe with the ESRCH answer ignored
GraceProbe_NeverGone ==
  /\ kpc = "grace_probe"
  /\ kpc' = "grace_sleep"
  /\ UNCHANGED <<kcur, killQ, kres, elapsed>>
  /\ UNCHANGED <<platform, tkenv, protVars, envVars, flagVars, cliVars, tuiVars, parseVars, finderVars, kalive,
                 kroot, ktimeout, ktree, kforce, bfsQ, bfsSeen, bfsOut>>

\* waitForExit(pid, timeoutMs): the probe of one loop iteration
GraceProbe ==
  /\ kpc = "grace_probe"
  /\ IF Errno(proc[kcur]) = "ESRCH"
     THEN KillSingleReturns(Result(kcur, TRUE, "SIGTERM", "undefined", "undefined"), elapsed)
     ELSE /\ kpc' = "grace_sleep"
          /\ UNCHANGED <<kcur, killQ, kres, elapsed>>
  /\ UNCHANGED <<platform, tkenv, protVars, envVars, flagVars, cliVars, tuiVars, parseVars, finderVars, kalive,
                 kroot, ktimeout, ktree, kforce, bfsQ, bfsSeen, bfsOut>>

\* The grace window cut to a single sleep whatever timeoutMs is
GraceSleep_OnePoll ==
  /\ kpc = "grace_sleep"
  /\ elapsed' = elapsed + PollMs
  /\ kpc' = "kill"
  /\ UNCHANGED <<platform, tkenv, protVars, envVars, flagVars, cliVars, tuiVars, parseVars, finderVars, kalive,
                 kroot, kcur, ktimeout, ktree, kforce, bfsQ, bfsSeen, bfsOut, killQ, kres>>

\* waitForExit(pid, timeoutMs): await sleep(30), then the loop condition
GraceSleep ==
  /\ kpc = "grace_sleep"
  /\ elapsed' = elapsed + PollMs
  /\ kpc' = IF elapsed + PollMs < ktimeout THEN "grace_probe" ELSE "kill"
  /\ UNCHANGED <<platform, tkenv, protVars, envVars, flagVars, cliVars, tuiVars, parseVars, finderVars, kalive,
                 kroot, kcur, ktimeout, ktree, kforce, bfsQ, bfsSeen, bfsOut, killQ, kres>>

\* killSingle step 3: process.kill(pid, 'SIGKILL')
SendKill ==
  /\ kpc = "kill"
  /\ log' = Append(log, LogEntry(kcur, "SIGKILL", Errno(proc[kcur])))
  /\ IF Errno(proc[kcur]) = "ESRCH"
     THEN KillSingleReturns(Result(kcur, TRUE, "SIGTERM", "undefined", "undefined"), elapsed)
     ELSE IF Errno(proc[kcur]) # "ok"
     THEN KillSingleReturns(Result(kcur, FALSE, "SIGKILL",
                                   "kill " \o Errno(proc[kcur]), Errno(proc[kcur])), elapsed)
     ELSE /\ kpc' = "confirm_probe"
          /\ elapsed' = 0
          /\ UNCHANGED <<kcur, killQ, kres>>
  /\ UNCHANGED <<platform, tkenv, protVars, proc, diedDuring, flagVars, cliVars, tuiVars, parseVars, finderVars, kalive,
                 kroot, ktimeout, ktree, kforce, bfsQ, bfsSeen, bfsOut>>

\* waitForExit(pid, 200): the probe of one loop iteration
ConfirmProbe ==
  /\ kpc = "confirm_probe"
  /\ IF Errno(proc[kcur]) = "ESRCH"
     THEN KillSingleReturns(Result(kcur, TRUE, "SIGKILL", "undefined", "undefined"), elapsed)
     ELSE /\ kpc' = "confirm_sleep"
          /\ UNCHANGED <<kcur, killQ, kres, elapsed>>
  /\ UNCHANGED <<platform, tkenv, protVars, envVars, flagVars, cliVars, tuiVars, parseVars, finderVars, kalive,
                 kroot, ktimeout, ktree, kforce, bfsQ, bfsSeen, bfsOut>>

\* The confirmation window cut to a single sleep
ConfirmSleep_ShortWait ==
  /\ kpc = "confirm_sleep"
  /\ KillSingleReturns(Result(kcur, FALSE, "SIGKILL", "process still alive", "undefined"),
                       elapsed + PollMs)
  /\ UNCHANGED <<platform, tkenv, protVars, envVars, flagVars, cliVars, tuiVars, parseVars, finderVars, kalive,
                 kroot, ktimeout, ktree, kforce, bfsQ, bfsSeen, bfsOut>>

\* waitForExit(pid, 200): await sleep(30), the loop condition, and on expiry
\* the "process still alive" result of killSingle
ConfirmSleep ==
  /\ kpc = "confirm_sleep"
  /\ IF elapsed + PollMs < ConfirmMs
     THEN /\ kpc' = "confirm_probe"
          /\ elapsed' = elapsed + PollMs
          /\ UNCHANGED <<kcur, killQ, kres>>
     ELSE KillSingleReturns(Result(kcur, FALSE, "SIGKILL", "process still alive", "undefined"),
                            elapsed + PollMs)
  /\ UNCHANGED <<platform, tkenv, protVars, envVars, flagVars, cliVars, tuiVars, parseVars, finderVars, kalive,
                 kroot, ktimeout, ktree, kforce, bfsQ, bfsSeen, bfsOut>>

-----------------------------------------------------------------------------
(* core/killer/windows.ts *)

\* What taskkill may print (stdout and stderr together), as the phrases the
\* patterns of runTaskkill look for; "zh-..." are the Chinese phrases.
SuccessPhrases  == {"SUCCESS", "zh-success"}        \* /SUCCESS|<zh>/i
NotFoundPhrases == {"not found", "zh-not-found"}    \* /not found|<zh>/i
DeniedPhrases   == {"Access is denied", "zh-access-denied"}  \* /Access.+denied|<zh>/i
AsciiPhrases    == {"SUCCESS", "not found", "Access is denied", "ERROR"}
Phrases == SuccessPhrases \cup NotFoundPhrases \cup DeniedPhrases \cup {"ERROR"}

\* One run of execFile('taskkill', args, {timeoutMs: 5000}): it resolves with an
\* output and an exit code, or rejects (spawn error with a code, or timeout).
TaskkillOutputs ==
  {{}} \cup {{ph} : ph \in Phrases}
  \cup {{"SUCCESS", "not found"}, {"not found", "Access is denied"},
        {"zh-access-denied", "ERROR"}, {"zh-success", "not found"},
        {"zh-success", "Access is denied"}}

TaskkillRuns ==
  [kind : {"exit"}, out : TaskkillOutputs, code : {0, 1}, err : {"undefined"}]
  \cup [kind : {"throw"}, out : {{}}, code : {1}, err : {"ENOENT", "undefined"}]

\* How the n-th taskkill of a kill may settle
TaskkillNow(n) == IF tkenv = <<>> THEN TaskkillRuns ELSE {tkenv[n]}

\* out.replace(/[\u0000-\u001F]|[^\x00-\x7F]/g, '').trim() || 'failed'
CleanMsg(out) == IF out \cap AsciiPhrases = {} THEN "failed" ELSE "ascii output"

\* runTaskkill knowing the English success token only
RunTaskkill_AsciiSuccess(p, run) ==
  IF run.kind = "throw"
    THEN Result(p, FALSE, "taskkill", "spawn error", run.err)
  ELSE IF "SUCCESS" \in run.out
    THEN Result(p, TRUE, "taskkill", "undefined", "undefined")
  ELSE IF run.out \cap NotFoundPhrases # {}
    THEN Result(p, TRUE, "already-exited", "undefined", "undefined")
  ELSE IF run.out \cap DeniedPhrases # {}
    THEN Result(p, FALSE, "taskkill", "access denied", "EPERM")
  ELSE IF run.code = 0
    THEN Result(p, TRUE, "taskkill", "undefined", "undefined")
  ELSE Result(p, FALSE, "taskkill", CleanMsg(run.out), "undefined")

\* runTaskkill(args), args naming the pid
RunTaskkill(p, run) ==
  IF run.kind = "throw"
    THEN Result(p, FALSE, "taskkill", "spawn error", run.err)
  ELSE IF run.out \cap SuccessPhrases # {}
    THEN Result(p, TRUE, "taskkill", "undefined", "undefined")
  ELSE IF run.out \cap NotFoundPhrases # {}
    THEN Result(p, TRUE, "already-exited", "undefined", "undefined")
  ELSE IF run.out \cap DeniedPhrases # {}
    THEN Result(p, FALSE, "taskkill", "access denied", "EPERM")
  ELSE IF run.code = 0
    THEN Result(p, TRUE, "taskkill", "undefined", "undefined")
  ELSE Result(p, FALSE, "taskkill", CleanMsg(run.out), "undefined")

\* WindowsKiller.kill up to its first await: isAlive, which tells a process
\* that is gone from one that is not, and nothing more
WindowsKillEntry ==
  /\ kpc = "entry"
  /\ platform = "win32"
  /\ \E kd \in KindsOf(kroot) :
       /\ proc' = IF IsAlive(kd) THEN proc ELSE [proc EXCEPT ![kroot] = kd]
       /\ kalive' = IF IsAlive(kd) THEN "alive" ELSE "gone"
       /\ IF ~IsAlive(kd)
          THEN /\ kpc' = "done"
               /\ kres' = Result(kroot, TRUE, "already-exited", "undefined", "undefined")
          ELSE /\ kpc' = "win_first"
               /\ kres' = kres
  /\ UNCHANGED <<platform, tkenv, protVars, log, diedDuring, flagVars, cliVars, tuiVars, parseVars, finderVars, kroot, kcur, ktimeout, ktree,
                 kforce, elapsed, bfsQ, bfsSeen, bfsOut, killQ>>

\* The first taskkill with the forced one following whatever it reports
WindowsFirst_AlwaysEscalates ==
  /\ kpc = "win_first"
  /\ \E run \in TaskkillNow(1) :
       LET first == RunTaskkill(kroot, run) IN
       /\ log' = Append(log, LogEntry(kroot, "taskkill /T", IF first.ok THEN "ok" ELSE "fail"))
       /\ kpc' = "win_forced"
       /\ kres' = kres
  /\ UNCHANGED <<platform, tkenv, protVars, proc, diedDuring, flagVars, cliVars, tuiVars, parseVars, finderVars, kalive, kroot, kcur, ktimeout, ktree,
                 kforce, elapsed, bfsQ, bfsSeen, bfsOut, killQ>>

\* const first = await runTaskkill(['/PID', pid, '/T'])
WindowsFirst ==
  /\ kpc = "win_first"
  /\ \E run \in TaskkillNow(1) :
       LET first == RunTaskkill(kroot, run) IN
       /\ log' = Append(log, LogEntry(kroot, "taskkill /T", IF first.ok THEN "ok" ELSE "fail"))
       /\ IF first.ok
          THEN /\ kpc' = "done"
               /\ kres' = Result(kroot, TRUE, "taskkill", "undefined", "undefined")
          ELSE /\ kpc' = "win_forced"
               /\ kres' = kres
  /\ UNCHANGED <<platform, tkenv, protVars, proc, diedDuring, flagVars, cliVars, tuiVars, parseVars, finderVars, kalive, kroot, kcur, ktimeout, ktree,
                 kforce, elapsed, bfsQ, bfsSeen, bfsOut, killQ>>

\* const forced = await runTaskkill(['/PID', pid, '/T', '/F'])
WindowsForced ==
  /\ kpc = "win_forced"
  /\ \E run \in TaskkillNow(2) :
       LET forced == RunTaskkill(kroot, run) IN
       /\ log' = Append(log, [pid |-> kroot, op |-> "taskkill /T /F",
                               res |-> IF forced.ok THEN "ok" ELSE "fail",
                               waited |-> elapsed,
                               message |-> forced.message,
                               errorCode |-> forced.errorCode])
       /\ kpc' = "done"
       /\ kres' = IF forced.ok
                  THEN Result(kroot, TRUE, "taskkill /F", "undefined", "undefined")
                  ELSE forced
  /\ UNCHANGED <<platform, tkenv, protVars, proc, diedDuring, flagVars, cliVars, tuiVars, parseVars, finderVars, kalive, kroot, kcur, ktimeout, ktree,
                 kforce, elapsed, bfsQ, bfsSeen, bfsOut, killQ>>

-----------------------------------------------------------------------------
(* utils/strings.ts, and the item list of ui/tui.ts *)

Max(a, b) == IF a >= b THEN a ELSE b
Min(a, b) == IF a <= b THEN a ELSE b

\* The elements of s at the 1-based positions in I, in order
\* (items.filter((_, idx) => set.has(idx)) with 0-based idx = position - 1)
RECURSIVE AtPositions(_, _, _)
AtPositions(s, I, i) ==
  IF i > Len(s) THEN <<>>
  ELSE (IF i \in I THEN <<s[i]>> ELSE <<>>) \o AtPositions(s, I, i + 1)

\* uniqBy(items, key), keys[i] being key(items[i]): an item is kept when no
\* earlier item has its key
UniqBy(s, keys) ==
  AtPositions(s, {i \in 1..Len(s) : \A j \in 1..(i - 1) : keys[j] # keys[i]}, 1)

\* (l) => String(l.pid)
PidKey(l) == l.pid
PidKeys(ls) == [i \in 1..Len(ls) |-> PidKey(ls[i])]

\* (l) => `${l.protocol}:${l.port}:${l.pid}:${l.localAddress ?? ''}`
ListenerKey(l) ==
  <<l.protocol, l.port, l.pid, IF l.localAddress = "undefined" THEN "" ELSE l.localAddress>>
ListenerKeys(ls) == [i \in 1..Len(ls) |-> ListenerKey(ls[i])]

\* 'tcp'.localeCompare('udp') < 0
ProtocolRank(p) == IF p = "tcp" THEN 0 ELSE 1

\* a.port - b.port || a.protocol.localeCompare(b.protocol) || a.pid - b.pid
Compare(a, b) ==
  IF a.port # b.port THEN a.port - b.port
  ELSE IF a.protocol # b.protocol THEN ProtocolRank(a.protocol) - ProtocolRank(b.protocol)
  ELSE a.pid - b.pid

\* Array.prototype.sort is stable: x goes behind every element not after it
RECURSIVE InsertSorted(_, _)
InsertSorted(x, s) ==
  IF s = <<>> THEN <<x>>
  ELSE IF Compare(Head(s), x) <= 0 THEN <<Head(s)>> \o InsertSorted(x, Tail(s))
  ELSE <<x>> \o s

RECURSIVE SortItems(_)
SortItems(s) ==
  IF s = <<>> THEN <<>>
  ELSE InsertSorted(s[Len(s)], SortItems(SubSeq(s, 1, Len(s) - 1)))

\* toggleSelected(idx)
ToggleSelected(sel, i) == IF i \in sel THEN sel \ {i} ELSE sel \cup {i}

\* The Enter filter with idx counted from 1
SelectedItems_OneBased(its, sel) == AtPositions(its, sel, 1)

\* items.filter((_, idx) => state.selected.has(idx)): idx counts from 0
SelectedItems(its, sel) == AtPositions(its, {i + 1 : i \in sel}, 1)

\* the first two statements of selectListeners
Items(listeners) == SortItems(UniqBy(listeners, ListenerKeys(listeners)))

-----------------------------------------------------------------------------
(* core/finder: what the discovery tools print, and the three parsers.     *)
(* A line is the sequence of its whitespace-separated fields               *)
(* (line.trim().split(/\s+/)), each field a sequence of characters; the    *)
(* empty line has no field.  A text is a sequence of lines.                *)

MaxLines == 2   \* lines in one output of a discovery tool

Digits == <<"0", "1", "2", "3", "4", "5", "6", "7", "8", "9">>

IsDigit(c) == \E i \in 1..10 : Digits[i] = c

DigitVal(c) == (CHOOSE i \in 1..10 : Digits[i] = c) - 1

\* /\w/
IsWordChar(c) ==
  \/ IsDigit(c)
  \/ c = "_"
  \/ \E i \in 1..26 : UpperChars[i] = c \/ LowerChars[i] = c

\* The number a run of decimal digits denotes
RECURSIVE DigitsValue(_)
DigitsValue(s) ==
  IF s = <<>> THEN 0
  ELSE 10 * DigitsValue(SubSeq(s, 1, Len(s) - 1)) + DigitVal(s[Len(s)])

\* Length of the longest run of digits of s that starts at position i
DigitRun(s, i) ==
  LET Runs == {n \in 0..(Len(s) - i + 1) : \A k \in 0..(n - 1) : IsDigit(s[i + k])}
  IN  CHOOSE n \in Runs : \A m \in Runs : m <= n

\* Values no run of digits denotes
NaN == -(2 ^ 30)
Null == NaN - 1

\* parseInt(s, 10); parseInt(undefined, 10) is NaN
ParseInt(s) ==
  IF s = Undefined \/ s = <<>> THEN NaN
  ELSE LET signed == s[1] \in {"-", "+"}
           from   == IF signed THEN 2 ELSE 1
           n      == DigitRun(s, from)
           v      == DigitsValue(SubSeq(s, from, from + n - 1))
       IN  IF n = 0 THEN NaN ELSE IF s[1] = "-" THEN -v ELSE v

\* Number.isFinite
IsFinite(n) == n # NaN /\ n # Null

\* !n for a number, NaN or null
Falsy(n) == n = 0 \/ n = NaN \/ n = Null

\* String.prototype.startsWith
StartsWith(s, n) == Len(n) <= Len(s) /\ SubSeq(s, 1, Len(n)) = n

\* parts.slice(from - 1).join(' ')
RECURSIVE JoinFrom(_, _)
JoinFrom(parts, from) ==
  IF from > Len(parts) THEN <<>>
  ELSE IF from = Len(parts) THEN parts[from]
  ELSE parts[from] \o <<" ">> \o JoinFrom(parts, from + 1)

\* parts[i - 1], undefined beyond the end
Field(parts, i) == IF i <= Len(parts) THEN parts[i] ELSE Undefined

\* The position of the ':' that /:(\d+)$/ matches at, 0 when there is none
PortColon(tok) ==
  LET Hits == {i \in 1..(Len(tok) - 1) :
                 tok[i] = ":" /\ DigitRun(tok, i + 1) = Len(tok) - i}
  IN  IF Hits = {} THEN 0 ELSE CHOOSE i \in Hits : TRUE

\* parseAddrPort(token) of the ss parser
ParseAddrPort(tok) ==
  LET i == PortColon(tok)
  IN  IF i = 0 THEN [port |-> Null, address |-> Undefined]
      ELSE [port |-> DigitsValue(SubSeq(tok, i + 1, Len(tok))),
            address |-> SubSeq(tok, 1, i - 1)]

\* address.replace(/^\[|\]$/g, '')
StripBrackets(a) ==
  LET b == IF a # <<>> /\ a[1] = "[" THEN SubSeq(a, 2, Len(a)) ELSE a
  IN  IF b # <<>> /\ b[Len(b)] = "]" THEN SubSeq(b, 1, Len(b) - 1) ELSE b

\* parseWindowsAddressPort(local): /^(.*):(\d+)$/
ParseWindowsAddressPort(local) ==
  LET i == PortColon(local)
  IN  IF i = 0 THEN [port |-> Null, address |-> Undefined]
      ELSE [port |-> DigitsValue(SubSeq(local, i + 1, Len(local))),
            address |-> StripBrackets(SubSeq(local, 1, i - 1))]

\* parseSsPid(proc): /pid=(\d+)/
ParseSsPid(pcol) ==
  LET Hits == {i \in 1..(Len(pcol) - 4) :
                 SubSeq(pcol, i, i + 3) = <<"p", "i", "d", "=">> /\ DigitRun(pcol, i + 4) > 0}
      i    == CHOOSE h \in Hits : \A g \in Hits : h <= g
  IN  IF Hits = {} THEN Null
      ELSE DigitsValue(SubSeq(pcol, i + 4, i + 3 + DigitRun(pcol, i + 4)))

\* parseSsName(proc): /users:\(\("([^"]+)"/
ParseSsName(pcol) ==
  LET pre   == <<"u", "s", "e", "r", "s", ":", "(", "(", "\"">>
      Close(i) == {j \in (i + Len(pre) + 1)..Len(pcol) :
                     /\ pcol[j] = "\""
                     /\ \A k \in (i + Len(pre))..(j - 1) : pcol[k] # "\""}
      Hits  == {i \in 1..(Len(pcol) - Len(pre)) :
                  SubSeq(pcol, i, i + Len(pre) - 1) = pre /\ Close(i) # {}}
      i     == CHOOSE h \in Hits : \A g \in Hits : h <= g
      j     == CHOOSE c \in Close(i) : TRUE
  IN  IF Hits = {} THEN Undefined ELSE SubSeq(pcol, i + Len(pre), j - 1)

\* A Listener as a parser pushes it
Row(proto, port, p, addr, name, user, raw, source) ==
  [protocol |-> proto, port |-> port, pid |-> p, localAddress |-> addr,
   processName |-> name, command |-> Undefined, user |-> user, raw |-> raw,
   source |-> source]

\* The body of parseSs's loop on one line
SsLine(parts, protocol, source) ==
  LET ap   == ParseAddrPort(Coalesce(Field(parts, 4), <<>>))
      pcol == JoinFrom(parts, 6)
      p    == ParseSsPid(pcol)
  IN  IF parts = <<>> THEN <<>>
      ELSE IF Len(parts) < 5 THEN <<>>
      ELSE IF Falsy(ap.port) THEN <<>>
      ELSE IF Falsy(p) THEN <<>>
      ELSE <<Row(protocol, ap.port, p, ap.address, ParseSsName(pcol), Undefined,
                 parts, source)>>

\* parseSs(stdout, protocol, source)
RECURSIVE ParseSs(_, _, _)
ParseSs(text, protocol, source) ==
  IF text = <<>> THEN <<>>
  ELSE SsLine(Head(text), protocol, source) \o ParseSs(Tail(text), protocol, source)

\* The loop body of parseNetstat without its test of the state column
NetstatLine_AnyState(parts, proto) ==
  LET p        == ToLowerCase(parts[1])
      hasState == p = <<"t", "c", "p">>
      state    == IF hasState THEN Field(parts, 4) ELSE Undefined
      pidStr   == Field(parts, IF hasState THEN 5 ELSE 4)
      p1       == ParseInt(pidStr)
      ap       == ParseWindowsAddressPort(parts[2])
  IN  IF parts = <<>> THEN <<>>
      ELSE IF StartsWith(ToLowerCase(parts[1]), <<"p", "r", "o", "t", "o">>) THEN <<>>
      ELSE IF StartsWith(ToLowerCase(parts[1]), <<"a", "c", "t", "i", "v", "e">>) THEN <<>>
      ELSE IF Len(parts) < 4 THEN <<>>
      ELSE IF p # <<"t", "c", "p">> /\ p # <<"u", "d", "p">> THEN <<>>
      ELSE IF ~IsFinite(p1) THEN <<>>
      ELSE IF Falsy(ap.port) THEN <<>>
      ELSE <<Row(proto, ap.port, p1, ap.address, Undefined, Undefined, parts, "netstat")>>

\* The body of parseNetstat's loop on one line
NetstatLine(parts, proto) ==
  LET p        == ToLowerCase(parts[1])
      hasState == p = <<"t", "c", "p">>
      state    == IF hasState THEN Field(parts, 4) ELSE Undefined
      pidStr   == Field(parts, IF hasState THEN 5 ELSE 4)
      p1       == ParseInt(pidStr)
      ap       == ParseWindowsAddressPort(parts[2])
  IN  IF parts = <<>> THEN <<>>
      ELSE IF StartsWith(ToLowerCase(parts[1]), <<"p", "r", "o", "t", "o">>) THEN <<>>
      ELSE IF StartsWith(ToLowerCase(parts[1]), <<"a", "c", "t", "i", "v", "e">>) THEN <<>>
      ELSE IF Len(parts) < 4 THEN <<>>
      ELSE IF p # <<"t", "c", "p">> /\ p # <<"u", "d", "p">> THEN <<>>
      ELSE IF hasState /\ state # Undefined /\ ToLowerCase(state) # <<"l", "i", "s", "t", "e", "n", "i", "n", "g">> THEN <<>>
      ELSE IF ~IsFinite(p1) THEN <<>>
      ELSE IF Falsy(ap.port) THEN <<>>
      ELSE <<Row(proto, ap.port, p1, ap.address, Undefined, Undefined, parts, "netstat")>>

\* parseNetstat(stdout, proto)
RECURSIVE ParseNetstat(_, _)
ParseNetstat(text, proto) ==
  IF text = <<>> THEN <<>>
  ELSE NetstatLine(Head(text), proto) \o ParseNetstat(Tail(text), proto)

\* name.match(/:(\d+)\b/): the position of the ':', 0 when there is no match
LsofPortColon(name) ==
  LET Hits == {i \in 1..(Len(name) - 1) :
                 /\ name[i] = ":"
                 /\ DigitRun(name, i + 1) > 0
                 /\ \/ i + DigitRun(name, i + 1) = Len(name)
                    \/ ~IsWordChar(name[i + DigitRun(name, i + 1) + 1])}
  IN  IF Hits = {} THEN 0 ELSE CHOOSE h \in Hits : \A g \in Hits : h <= g

\* name.match(/^\w+\s+([^\s]+):\d+/)?.[1], name being the fields from the
\* ninth on joined by single blanks
LsofAddr(parts) ==
  LET w    == Field(parts, 9)
      t    == Field(parts, 10)
      Hits == {k \in 2..(Len(t) - 1) : t[k] = ":" /\ IsDigit(t[k + 1])}
      k    == CHOOSE h \in Hits : \A g \in Hits : g <= h
  IN  IF t = Undefined \/ w = <<>> \/ \E i \in 1..Len(w) : ~IsWordChar(w[i]) THEN Undefined
      ELSE IF Hits = {} THEN Undefined
      ELSE SubSeq(t, 1, k - 1)

\* The body of parseLsof's loop on one line after the header
LsofLine(parts) ==
  LET name  == JoinFrom(parts, 9)
      proto == IF StartsWith(name, <<"T", "C", "P">>) THEN "tcp"
               ELSE IF StartsWith(name, <<"U", "D", "P">>) THEN "udp" ELSE "null"
      i     == LsofPortColon(name)
      port  == DigitsValue(SubSeq(name, i + 1, i + DigitRun(name, i + 1)))
  IN  IF parts = <<>> THEN <<>>
      ELSE IF Len(parts) < 9 THEN <<>>
      ELSE IF proto = "null" THEN <<>>
      ELSE IF i = 0 THEN <<>>
      ELSE <<Row(proto, port, ParseInt(parts[2]), LsofAddr(parts), parts[1], parts[3],
                 parts, "lsof")>>

\* line.toLowerCase().startsWith('command')
IsLsofHeader(parts) == parts # <<>> /\ StartsWith(ToLowerCase(parts[1]), <<"c", "o", "m", "m", "a", "n", "d">>)

\* parseLsof(stdout): lines up to and including the header line are skipped
RECURSIVE ParseLsofFrom(_, _)
ParseLsofFrom(text, sawHeader) ==
  IF text = <<>> THEN <<>>
  ELSE IF Head(text) = <<>> THEN ParseLsofFrom(Tail(text), sawHeader)
  ELSE IF ~sawHeader THEN ParseLsofFrom(Tail(text), IsLsofHeader(Head(text)))
  ELSE LsofLine(Head(text)) \o ParseLsofFrom(Tail(text), TRUE)

ParseLsof(text) == ParseLsofFrom(text, FALSE)

\* (l) => `${l.protocol}:${l.port}:${l.pid}:${l.localAddress ?? ''}`
RowKey(l) == <<l.protocol, l.port, l.pid, Coalesce(l.localAddress, <<>>)>>
RowKeys(ls) == [i \in 1..Len(ls) |-> RowKey(ls[i])]

\* Deduplication that keeps the last row of a key
Dedupe_KeepsLast(ls) ==
  AtPositions(ls, {i \in 1..Len(ls) :
                     \A j \in (i + 1)..Len(ls) : RowKey(ls[j]) # RowKey(ls[i])}, 1)

\* Deduplication of neighbouring rows only
Dedupe_AdjacentOnly(ls) ==
  AtPositions(ls, {i \in 1..Len(ls) : i = 1 \/ RowKey(ls[i - 1]) # RowKey(ls[i])}, 1)

\* dedupe(listeners), and the uniqBy every listAll and findByPort ends in
Dedupe(ls) == UniqBy(ls, RowKeys(ls))

\* ---- lines the tools of the model print

SsProcNode == <<"u", "s", "e", "r", "s", ":", "(", "(", "\"", "n", "o", "d", "e", "\"", ",", "p", "i", "d", "=", "8", ",", "f", "d", "=", "3", ")", ")">>
SsProcSshd == <<"u", "s", "e", "r", "s", ":", "(", "(", "\"", "s", "s", "h", "d", "\"", ",", "p", "i", "d", "=", "7", ",", "f", "d", "=", "3", ")", ")">>

SsSshdLine == <<<<"L", "I", "S", "T", "E", "N">>, <<"0">>, <<"1", "2", "8">>, <<"*", ":", "2", "2">>, <<"*", ":", "*">>, SsProcSshd>>

SsLines ==
  { <<>>,
    <<<<"L", "I", "S", "T", "E", "N">>, <<"0">>, <<"1", "2", "8">>, <<"0", ".", "0", ".", "0", ".", "0", ":", "8", "0">>, <<"0", ".", "0", ".", "0", ".", "0", ":", "*">>, SsProcNode>>,
    <<<<"L", "I", "S", "T", "E", "N">>, <<"0">>, <<"1", "2", "8">>, <<"[", ":", ":", "]", ":", "8", "0">>, <<"[", ":", ":", "]", ":", "*">>, SsProcNode>>,
    <<<<"U", "N", "C", "O", "N", "N">>, <<"0">>, <<"0">>, <<"0", ".", "0", ".", "0", ".", "0", ":", "8", "0">>, <<"0", ".", "0", ".", "0", ".", "0", ":", "*">>, SsProcNode>>,
    <<<<"L", "I", "S", "T", "E", "N">>, <<"0">>, <<"1", "2", "8">>, <<"0", ".", "0", ".", "0", ".", "0", ":", "8", "0">>, <<"0", ".", "0", ".", "0", ".", "0", ":", "*">>>>,
    <<<<"L", "I", "S", "T", "E", "N">>, <<"0">>, <<"1", "2", "8">>, <<"0", ".", "0", ".", "0", ".", "0", ":", "8", "0">>>>,
    SsSshdLine }

LsofHeader ==
  <<<<"C", "O", "M", "M", "A", "N", "D">>, <<"P", "I", "D">>, <<"U", "S", "E", "R">>, <<"F", "D">>, <<"T", "Y", "P", "E">>, <<"D", "E", "V", "I", "C", "E">>, <<"S", "I", "Z", "E", "/", "O", "F", "F">>,
    <<"N", "O", "D", "E">>, <<"N", "A", "M", "E">>>>

LsofSshdLine ==
  <<<<"s", "s", "h", "d">>, <<"7">>, <<"7">>, <<"r", "o", "o", "t">>, <<"3", "u">>, <<"I", "P", "v", "6">>, <<"0", "x", "4">>, <<"0", "t", "0">>,
    <<"T", "C", "P">>, <<"[", ":", ":", "1", "]", ":", "2", "2">>, <<"(", "L", "I", "S", "T", "E", "N", ")">>>>

\* `node 8 user 23u IPv4 0x1 0t0 TCP *:80 (LISTEN)`: the row of a listening
\* TCP socket in lsof's column layout
LsofNodeLine ==
  <<<<"n", "o", "d", "e">>, <<"8">>, <<"u", "s", "e", "r">>, <<"2", "3", "u">>, <<"I", "P", "v", "4">>, <<"0", "x", "1">>, <<"0", "t", "0">>, <<"T", "C", "P">>,
    <<"*", ":", "8", "0">>, <<"(", "L", "I", "S", "T", "E", "N", ")">>>>

\* lsof rows as lsof prints them (NODE is the eighth field), and rows with one
\* more column before NODE (the TID of a task)
LsofLines ==
  { <<>>,
    LsofHeader,
    LsofNodeLine,
    <<<<"n", "o", "d", "e">>, <<"8">>, <<"9">>, <<"u", "s", "e", "r">>, <<"2", "3", "u">>, <<"I", "P", "v", "4">>, <<"0", "x", "1">>, <<"0", "t", "0">>,
      <<"T", "C", "P">>, <<"*", ":", "8", "0">>, <<"(", "L", "I", "S", "T", "E", "N", ")">>>>,
    <<<<"n", "o", "d", "e">>, <<"8">>, <<"9">>, <<"u", "s", "e", "r">>, <<"2", "4", "u">>, <<"I", "P", "v", "4">>, <<"0", "x", "2">>, <<"0", "t", "0">>,
      <<"T", "C", "P">>, <<"*", ":", "8", "0">>, <<"(", "L", "I", "S", "T", "E", "N", ")">>>>,
    <<<<"n", "o", "d", "e">>, <<"8">>, <<"9">>, <<"u", "s", "e", "r">>, <<"2", "5", "u">>, <<"I", "P", "v", "4">>, <<"0", "x", "3">>, <<"0", "t", "0">>,
      <<"U", "D", "P">>, <<"*", ":", "8", "0">>>>,
    <<<<"n", "o", "d", "e">>, <<"8">>, <<"u", "s", "e", "r">>>>,
    LsofSshdLine }

NetstatLines ==
  { <<>>,
    <<<<"P", "r", "o", "t", "o">>, <<"L", "o", "c", "a", "l">>, <<"A", "d", "d", "r", "e", "s", "s">>, <<"F", "o", "r", "e", "i", "g", "n">>, <<"A", "d", "d", "r", "e", "s", "s">>, <<"S", "t", "a", "t", "e">>, <<"P", "I", "D">>>>,
    <<<<"T", "C", "P">>, <<"0", ".", "0", ".", "0", ".", "0", ":", "8", "0">>, <<"0", ".", "0", ".", "0", ".", "0", ":", "0">>, <<"L", "I", "S", "T", "E", "N", "I", "N", "G">>, <<"8">>>>,
    <<<<"T", "C", "P">>, <<"[", ":", ":", "]", ":", "8", "0">>, <<"[", ":", ":", "]", ":", "0">>, <<"L", "I", "S", "T", "E", "N", "I", "N", "G">>, <<"8">>>>,
    <<<<"t", "c", "p">>, <<"0", ".", "0", ".", "0", ".", "0", ":", "2", "2">>, <<"0", ".", "0", ".", "0", ".", "0", ":", "0">>, <<"l", "i", "s", "t", "e", "n", "i", "n", "g">>, <<"7">>>>,
    <<<<"T", "C", "P">>, <<"0", ".", "0", ".", "0", ".", "0", ":", "8", "0">>, <<"1", ".", "2", ".", "3", ".", "4", ":", "5">>, <<"E", "S", "T", "A", "B", "L", "I", "S", "H", "E", "D">>, <<"8">>>>,
    <<<<"T", "C", "P">>, <<"0", ".", "0", ".", "0", ".", "0", ":", "8", "0">>, <<"0", ".", "0", ".", "0", ".", "0", ":", "0">>, <<"L", "I", "S", "T", "E", "N", "I", "N", "G">>>>,
    <<<<"U", "D", "P">>, <<"0", ".", "0", ".", "0", ".", "0", ":", "8", "0">>, <<"*", ":", "*">>, <<"8">>>>,
    <<<<"U", "D", "P">>, <<"0", ".", "0", ".", "0", ".", "0", ":", "0">>, <<"*", ":", "*">>, <<"8">>>>,
    <<<<"U", "D", "P">>, <<"0", ".", "0", ".", "0", ".", "0", ":", "8", "0">>, <<"*", ":", "*">>>>,
    <<<<"U", "D", "P">>, <<"0", ".", "0", ".", "0", ".", "0", ":", "8", "0">>, <<"*", ":", "*">>, <<"x">>>> }

LinesOf(tool) ==
  CASE tool = "ss" -> SsLines
    [] tool = "lsof" -> LsofLines
    [] tool = "netstat" -> NetstatLines

\* Lines no tool prints for a socket: an lsof row whose second column is not
\* a number (a command name with a blank in it), an ss row whose port is
\* beyond the range of ports
LsofBlankLine ==
  <<<<"G", "o", "o", "g", "l", "e">>, <<"C", "h", "r", "o", "m", "e">>, <<"8">>, <<"u", "s", "e", "r">>, <<"2", "3", "u">>, <<"I", "P", "v", "4">>, <<"0", "x", "1">>, <<"0", "t", "0">>, <<"T", "C", "P">>, <<"*", ":", "8", "0">>, <<"(", "L", "I", "S", "T", "E", "N", ")">>>>

SsBigPortLine ==
  <<<<"L", "I", "S", "T", "E", "N">>, <<"0">>, <<"1", "2", "8">>, <<"*", ":", "7", "0", "0", "0", "0">>, <<"*", ":", "*">>, SsProcNode>>

MalformedLines(tool) ==
  CASE tool = "ss" -> {SsBigPortLine}
    [] tool = "lsof" -> {LsofBlankLine}
    [] tool = "netstat" -> {}

\* Every output of at most MaxLines lines
TextsOver(lines) == UNION {[1..n -> lines] : n \in 0..MaxLines}
TextsOf(tool) == TextsOver(LinesOf(tool))

\* What ss prints when asked for port 80 only ("sport = :80"): no row of
\* another port
TextsAbout80(tool) == TextsOver(LinesOf(tool) \ {SsSshdLine, LsofSshdLine})

\* A row lsof -iUDP:80 prints besides the sockets bound to port 80: a UDP
\* socket of pid 8 bound to port 5353 and connected to port 80 of a peer
\* (-i selects a socket by the port of either end)
LsofConnectedLine ==
  <<<<"n", "o", "d", "e">>, <<"8">>, <<"9">>, <<"u", "s", "e", "r">>, <<"2", "6", "u">>, <<"I", "P", "v", "4">>, <<"0", "x", "4">>, <<"0", "t", "0">>, <<"U", "D", "P">>, <<"1", ".", "2", ".", "3", ".", "4", ":", "5", "3", "5", "3", "-", ">", "5", ".", "6", ".", "7", ".", "8", ":", "8", "0">>>>

\* What lsof prints for -iTCP:80 -sTCP:LISTEN (q = "tcp") and for -iUDP:80
\* (q = "udp"): no row of the other protocol
LsofAbout80(q) ==
  IF q = "tcp"
  THEN TextsOver({l \in LsofLines \ {LsofSshdLine} : Field(l, 9) # <<"U", "D", "P">>})
  ELSE TextsOver({l \in LsofLines \ {LsofSshdLine} : Field(l, 9) # <<"T", "C", "P">>}
                 \cup {LsofConnectedLine})

-----------------------------------------------------------------------------
(* Values of the parts of the state that a specification leaves alone *)

NoPid == -1

NoInput == [protocol |-> "tcp", port |-> 0, pid |-> 0, localAddress |-> "undefined",
            processName |-> Undefined, command |-> Undefined]

ProtIdle == protInput = NoInput /\ protOut = NoVerdict

EnvInit ==
  /\ proc = [p \in Pids |-> "unknown"]
  /\ log = <<>>
  /\ diedDuring = "alive"

KillerIdle ==
  /\ kpc = "idle"
  /\ kroot = NoPid
  /\ kcur = NoPid
  /\ ktimeout = 0
  /\ ktree = FALSE
  /\ kforce = FALSE
  /\ elapsed = 0
  /\ bfsQ = <<>>
  /\ bfsSeen = {}
  /\ bfsOut = <<>>
  /\ killQ = <<>>
  /\ kalive = "not-called"
  /\ kres = NoResult

NoPerPid == [ok |-> FALSE, method |-> "unset", message |-> "unset", errorCode |-> "unset"]
NoRefusal == [pid |-> NoPid, reason |-> "none"]

FlagsIdle ==
  /\ force = FALSE
  /\ dryRun = FALSE
  /\ timeoutMs = 0
  /\ flagPid = NoPid
  /\ flagName = Undefined
  /\ flagPorts = <<>>
  /\ allowed = {}
  /\ mode = "none"
  /\ parsed = <<>>
  /\ enriched = FALSE

CliStart(pc) ==
  /\ batch = <<>>
  /\ ballowed = {}
  /\ cpc = pc
  /\ idx = 0
  /\ perPid = [p \in Pids |-> NoPerPid]
  /\ killCalls = <<>>
  /\ refusal = NoRefusal
  /\ reports = <<>>
  /\ exitCode = 0

NoSelection == [cancelled |-> FALSE, selected |-> <<>>, resolved |-> FALSE]

\* The terminal as the session finds it: cooked mode, main screen, cursor
\* shown, stdin paused, no handler of the session installed.
TermInitial ==
  [raw |-> FALSE, alt |-> FALSE, cursorShown |-> TRUE, flowing |-> FALSE,
   onData |-> FALSE, onSigInt |-> FALSE]

TuiIdle ==
  /\ tinput = <<>>
  /\ items = <<>>
  /\ index = 0
  /\ top = 0
  /\ selected = {}
  /\ rows = 0
  /\ tdone = FALSE
  /\ tresult = NoSelection
  /\ tty = [stdin |-> FALSE, stdout |-> FALSE]
  /\ tpc = "idle"
  /\ term = TermInitial
  /\ tlog = <<>>
  /\ late = {}

ParseIdle ==
  /\ ppc = "idle"
  /\ ptool = "none"
  /\ pproto = "none"
  /\ ptext = <<>>
  /\ pout = <<>>
  /\ pdd = [once |-> <<>>, twice |-> <<>>, again |-> <<>>]

\* A pid without a task of enrichFromProc
NoTask == [pc |-> "none", comm |-> Undefined, cmdline |-> Undefined, uid |-> Undefined]

EnrichIdle ==
  /\ etask = [p \in Pids |-> NoTask]
  /\ uidCacheLoaded = FALSE
  /\ uidToUser = {}

FinderIdle ==
  /\ EnrichIdle
  /\ fop = [kind |-> "none", port |-> 0, protocols |-> {}]
  /\ installed = {}
  /\ procfs = FALSE
  /\ fpc = "idle"
  /\ fq = "none"
  /\ fout = <<>>
  /\ fres = <<>>
  /\ ferr = "none"
  /\ execs = <<>>

-----------------------------------------------------------------------------
(* The classifier on its own: protectionFor(l) on any listener *)

ProtPids == {-1, 0, 1, 2, 4, 7}
ProtPorts == {0, 22, 80}

ProtInputs ==
  [protocol : {"tcp", "udp"}, port : ProtPorts, pid : ProtPids,
   localAddress : {"undefined"},
   processName : Names \cup {Undefined, N_empty},
   command : {Undefined, N_sshdCmd, N_svchost}]

InitProt ==
  /\ platform \in Platforms
  /\ tkenv = <<>>
  /\ protInput \in ProtInputs
  /\ protOut = NoVerdict
  /\ EnvInit /\ KillerIdle /\ FlagsIdle /\ CliStart("idle") /\ TuiIdle /\ ParseIdle /\ FinderIdle

Classify ==
  /\ protOut = NoVerdict
  /\ protOut' = ProtectionFor(protInput)
  /\ UNCHANGED <<platform, tkenv, protInput, envVars, killVars, flagVars, cliVars, tuiVars, parseVars, finderVars>>

NextProt == Classify

SpecProt == InitProt /\ [][NextProt]_vars

-----------------------------------------------------------------------------
(* The killer on its own: one call of Killer.kill(pid, options) on the     *)
(* killer getKiller() selects for the platform.                            *)

TimeoutChoices == {k * PollMs : k \in 0..MaxGracePolls}

KillerCall(p, tmo, tree, f) ==
  /\ kpc = "entry"
  /\ kroot = p
  /\ kcur = p
  /\ ktimeout = Max(0, tmo)
  /\ ktree = tree
  /\ kforce = f
  /\ elapsed = 0
  /\ bfsQ = <<>>
  /\ bfsSeen = {}
  /\ bfsOut = <<>>
  /\ killQ = <<>>
  /\ kalive = "not-called"
  /\ kres = NoResult

InitKiller ==
  /\ platform \in Platforms
  /\ tkenv \in IF platform = "win32" THEN [1..2 -> TaskkillRuns] ELSE {<<>>}
  /\ ProtIdle
  /\ EnvInit
  /\ FlagsIdle /\ CliStart("idle") /\ TuiIdle /\ ParseIdle /\ FinderIdle
  /\ \E p \in TreePids, t \in TimeoutChoices, tree \in BOOLEAN, f \in BOOLEAN :
       KillerCall(p, t, tree, f)

KillerSteps ==
  \/ PosixKillEntry
  \/ SendTerm
  \/ GraceProbe
  \/ GraceSleep
  \/ SendKill
  \/ ConfirmProbe
  \/ ConfirmSleep
  \/ WindowsKillEntry
  \/ WindowsFirst
  \/ WindowsForced
  \/ \E p \in Pids : ProcExit(p)
  \/ \E p \in Pids : ProcChangesOwner(p)

NextKiller == KillerSteps \/ TreeStep

SpecKiller == InitKiller /\ [][NextKiller]_vars

-----------------------------------------------------------------------------
(* The machine one run of kkp looks at: its listening sockets and the      *)
(* real names of the processes that own them                               *)

MaxListeners == 2   \* listening sockets in the discovery tool's output

\* The executable a pid really runs, whether or not discovery reports it
RealName(p) ==
  IF platform = "win32"
  THEN CASE p = 4 -> N_System [] p = 7 -> N_sshdExe [] p = 9 -> N_svchost [] OTHER -> N_node
  ELSE CASE p = 1 -> N_systemd [] p = 7 -> N_sshd [] p = 9 -> N_systemd [] OTHER -> N_node

Socket(proto, port, p) == [protocol |-> proto, port |-> port, pid |-> p]

SocketUniverse ==
  {Socket("tcp", 22, 7), Socket("udp", 21, 7), Socket("tcp", 80, 8),
   Socket("tcp", 80, IF platform = "win32" THEN 9 ELSE 1)}

\* One row of the discovery tool as the platform's parser returns it:
\* parseSs and parseLsof take the process name from the row, parseNetstat
\* has no name to take.
ParsedRow(sk) ==
  [protocol |-> sk.protocol, port |-> sk.port, pid |-> sk.pid,
   localAddress |-> "0.0.0.0",
   processName |-> IF platform = "win32" THEN Undefined ELSE RealName(sk.pid),
   command |-> Undefined]

ParsedOutputs ==
  {[i \in 1..Len(s) |-> ParsedRow(s[i])] :
     s \in {t \in UNION {[1..n -> SocketUniverse] : n \in 0..MaxListeners} :
              \A i, j \in 1..Len(t) : t[i] = t[j] => i = j}}

\* enrichWindows: if (info.name) l.processName = info.name
EnrichWindows(ls) ==
  IF enriched THEN [i \in 1..Len(ls) |-> [ls[i] EXCEPT !.processName = RealName(ls[i].pid)]]
  ELSE ls

\* finder.listAll()
ListAll ==
  IF platform = "win32" THEN EnrichWindows(UniqBy(parsed, ListenerKeys(parsed))) ELSE parsed

\* finder.findByPort(port, {protocols})
FindByPort(port, protocols) ==
  LET Hit(l) == l.port = port /\ l.protocol \in protocols
  IN  UniqBy(SelectSeq(parsed, Hit), ListenerKeys(SelectSeq(parsed, Hit)))

-----------------------------------------------------------------------------
(* cli.ts: main and killResolvedListeners *)

CliTimeouts == {0, PollMs}
AllowedChoices == {{"tcp", "udp"}, {"tcp"}}
PortRequests == {<<22, 21, 80>>}
NameRequests == {N_node, N_sshdExe}

\* .toLowerCase().replace(/\.exe$/i, '')
StripExe(s) ==
  LET low == ToLowerCase(s)
  IN  IF EndsWith(low, <<".", "e", "x", "e">>) THEN SubSeq(low, 1, Len(low) - 4) ELSE low

\* killByProcessNames: the filter on allListeners for the target t
NameMatches(ls, t) ==
  LET name == StripExe(t)
      Hit(l) == /\ l.processName # Undefined
                /\ l.processName # <<>>
                /\ (StripExe(l.processName) = name \/ Includes(StripExe(l.processName), name))
  IN  SelectSeq(ls, Hit)

RECURSIVE ConcatFound(_)
ConcatFound(ports) ==
  IF ports = <<>> THEN <<>>
  ELSE FindByPort(Head(ports), allowed) \o ConcatFound(Tail(ports))

\* What selectListeners may resolve with on the listeners ls
SelectionOutcomes(ls) ==
  {[cancelled |-> TRUE, selected |-> <<>>, ctrlC |-> c] : c \in BOOLEAN}
  \cup {[cancelled |-> FALSE, selected |-> SelectedItems(Items(ls), S), ctrlC |-> FALSE] :
          S \in SUBSET (0..(Len(Items(ls)) - 1))}

\* killResolvedListeners: actionable and unique
Actionable == LET Ok(l) == l.protocol \in ballowed IN SelectSeq(batch, Ok)
\* The kill list without uniqBy: one entry per listener
Unique_PerListener == Actionable

Unique == UniqBy(Actionable, PidKeys(Actionable))

\* { pid, port: 0, protocol: 'tcp' }
Pseudo(p) == [protocol |-> "tcp", port |-> 0, pid |-> p, localAddress |-> "undefined",
              processName |-> Undefined, command |-> Undefined]

\* prot.reason ?? 'protected'
ReasonOf(prot) == IF prot.reason = "undefined" THEN "protected" ELSE prot.reason

\* The refusal gate with the force test inverted
Refuses_ForceInverted(prot) == prot.protected /\ force

\* The refusal gate left out of dry runs
Refuses_NotInDryRun(prot) == prot.protected /\ ~force /\ ~dryRun

\* if (prot.protected && !force)
Refuses(prot) == prot.protected /\ ~force

InitCli ==
  /\ platform \in Platforms
  /\ tkenv = <<>>
  /\ ProtIdle /\ EnvInit /\ KillerIdle /\ TuiIdle /\ ParseIdle /\ FinderIdle
  /\ force \in BOOLEAN
  /\ dryRun \in BOOLEAN
  /\ timeoutMs \in CliTimeouts
  /\ mode \in {"pid", "ports", "names", "tui"}
  /\ flagPid \in IF mode = "pid" THEN Pids ELSE {NoPid}
  /\ flagName \in IF mode = "names" THEN NameRequests ELSE {Undefined}
  /\ flagPorts \in IF mode = "ports" THEN PortRequests ELSE {<<>>}
  /\ allowed \in IF mode = "pid" THEN {{"tcp", "udp"}} ELSE AllowedChoices
  /\ parsed \in IF mode = "pid" THEN {<<>>} ELSE ParsedOutputs
  /\ enriched \in IF platform = "win32" /\ mode \in {"names", "tui"} THEN BOOLEAN ELSE {FALSE}
  /\ CliStart("start")

\* killer.kill(pid, { force, timeoutMs }) is called
KillerInvoke(p) ==
  /\ kpc' = "entry"
  /\ kroot' = p
  /\ kcur' = p
  /\ ktimeout' = Max(0, timeoutMs)
  /\ ktree' = FALSE
  /\ kforce' = force
  /\ elapsed' = 0
  /\ diedDuring' = "alive"
  /\ killCalls' = Append(killCalls, p)
  /\ UNCHANGED <<bfsQ, bfsSeen, bfsOut, killQ, kalive, kres, proc, log>>

\* the awaited kill has returned and its result is taken
KillerReturn ==
  /\ kpc' = "idle"
  /\ kroot' = NoPid
  /\ kcur' = NoPid
  /\ ktimeout' = 0
  /\ kforce' = FALSE
  /\ elapsed' = 0
  /\ kalive' = "not-called"
  /\ kres' = NoResult
  /\ diedDuring' = "alive"
  /\ UNCHANGED <<ktree, bfsQ, bfsSeen, bfsOut, killQ, proc, log>>

KillerUntouched == UNCHANGED <<envVars, killVars>>

\* killResolvedListeners up to its loop
EnterBatch(listeners, protocols) ==
  LET Ok(l) == l.protocol \in protocols IN
  /\ batch' = listeners
  /\ ballowed' = protocols
  /\ idx' = 1
  /\ cpc' = IF SelectSeq(listeners, Ok) = <<>> THEN "exit" ELSE "loop"

\* main, `kkp --pid <pid>`, up to the await of killer.kill
CliPid ==
  /\ cpc = "start"
  /\ mode = "pid"
  /\ LET prot == ProtectionFor(Pseudo(flagPid)) IN
     IF Refuses(prot)
     THEN /\ refusal' = [pid |-> flagPid, reason |-> ReasonOf(prot)]
          /\ exitCode' = 1
          /\ cpc' = "exit"
          /\ KillerUntouched
          /\ UNCHANGED <<killCalls, reports>>
     ELSE IF dryRun
     THEN /\ reports' = <<[pid |-> flagPid, ok |-> TRUE, text |-> "would kill",
                          elevationHint |-> FALSE, forceHint |-> FALSE]>>
          /\ cpc' = "exit"
          /\ KillerUntouched
          /\ UNCHANGED <<killCalls, refusal, exitCode>>
     ELSE /\ KillerInvoke(flagPid)
          /\ cpc' = "await"
          /\ UNCHANGED <<refusal, reports, exitCode>>
  /\ UNCHANGED <<platform, tkenv, protVars, flagVars, tuiVars, parseVars, finderVars, batch, ballowed, idx, perPid>>

\* main, `kkp --pid <pid>`, from the return of killer.kill
CliPidDone ==
  /\ cpc = "await"
  /\ mode = "pid"
  /\ kpc = "done"
  /\ reports' = <<[pid |-> flagPid, ok |-> kres.ok,
                   text |-> IF kres.ok THEN kres.method
                            ELSE IF kres.message = "undefined" THEN "unknown error"
                            ELSE kres.message,
                   elevationHint |-> ~kres.ok /\ kres.errorCode = "EPERM",
                   forceHint |-> FALSE]>>
  /\ exitCode' = IF kres.ok THEN exitCode ELSE 1
  /\ cpc' = "exit"
  /\ KillerReturn
  /\ UNCHANGED <<platform, tkenv, protVars, flagVars, tuiVars, parseVars, finderVars,
                 batch, ballowed, idx, perPid, killCalls, refusal>>

\* main -> killByProcessNames, up to the loop of killResolvedListeners
CliByNames ==
  /\ cpc = "start"
  /\ mode = "names"
  /\ LET matched == NameMatches(ListAll, flagName)
         Ok(l) == l.protocol \in allowed
     IN  IF matched = <<>>
         THEN /\ exitCode' = 1
              /\ cpc' = "exit"
              /\ UNCHANGED <<batch, ballowed, idx>>
         ELSE /\ EnterBatch(UniqBy(SelectSeq(matched, Ok), PidKeys(SelectSeq(matched, Ok))), allowed)
              /\ exitCode' = exitCode
  /\ KillerUntouched
  /\ UNCHANGED <<platform, tkenv, protVars, flagVars, tuiVars, parseVars, finderVars, perPid, killCalls, refusal, reports>>

\* main -> killByPorts, up to the loop of killResolvedListeners
CliByPorts ==
  /\ cpc = "start"
  /\ mode = "ports"
  /\ LET all == ConcatFound(flagPorts)
         missed == \E i \in 1..Len(flagPorts) : FindByPort(flagPorts[i], allowed) = <<>>
     IN  /\ exitCode' = IF missed THEN 1 ELSE exitCode
         /\ IF all = <<>>
            THEN /\ cpc' = "exit"
                 /\ UNCHANGED <<batch, ballowed, idx>>
            ELSE EnterBatch(all, {"tcp", "udp"})
  /\ KillerUntouched
  /\ UNCHANGED <<platform, tkenv, protVars, flagVars, tuiVars, parseVars, finderVars, perPid, killCalls, refusal, reports>>

\* main, `kkp` without arguments on a terminal, up to the loop of
\* killResolvedListeners
CliInteractive ==
  /\ cpc = "start"
  /\ mode = "tui"
  /\ IF ListAll = <<>>
     THEN /\ cpc' = "exit"
          /\ UNCHANGED <<batch, ballowed, idx, exitCode>>
     ELSE \E result \in SelectionOutcomes(ListAll) :
            IF result.cancelled
            THEN /\ cpc' = "exit"
                 /\ exitCode' = IF result.ctrlC THEN 130 ELSE exitCode
                 /\ UNCHANGED <<batch, ballowed, idx>>
            ELSE /\ EnterBatch(result.selected, allowed)
                 /\ exitCode' = exitCode
  /\ KillerUntouched
  /\ UNCHANGED <<platform, tkenv, protVars, flagVars, tuiVars, parseVars, finderVars, perPid, killCalls, refusal, reports>>

\* killResolvedListeners: one iteration of for (const l of unique), up to the
\* await of killer.kill; past the last iteration, on to the report loop
CliLoop ==
  /\ cpc = "loop"
  /\ IF idx > Len(Unique)
     THEN /\ cpc' = "report"
          /\ KillerUntouched
          /\ UNCHANGED <<idx, perPid, killCalls>>
     ELSE LET l == Unique[idx]
              prot == ProtectionFor(l)
          IN  IF Refuses(prot)
              THEN /\ perPid' = [perPid EXCEPT ![l.pid] =
                                   [ok |-> FALSE, method |-> "undefined",
                                    message |-> ReasonOf(prot), errorCode |-> "EPERM"]]
                   /\ idx' = idx + 1
                   /\ cpc' = cpc
                   /\ KillerUntouched
                   /\ UNCHANGED killCalls
              ELSE IF dryRun
              THEN /\ perPid' = [perPid EXCEPT ![l.pid] =
                                   [ok |-> TRUE, method |-> "dry-run",
                                    message |-> "undefined", errorCode |-> "undefined"]]
                   /\ idx' = idx + 1
                   /\ cpc' = cpc
                   /\ KillerUntouched
                   /\ UNCHANGED killCalls
              ELSE /\ KillerInvoke(l.pid)
                   /\ cpc' = "await"
                   /\ UNCHANGED <<idx, perPid>>
  /\ UNCHANGED <<platform, tkenv, protVars, flagVars, tuiVars, parseVars, finderVars,
                 batch, ballowed, refusal, reports, exitCode>>

\* killResolvedListeners: killer.kill has returned, perPid.set
CliKillDone ==
  /\ cpc = "await"
  /\ mode # "pid"
  /\ kpc = "done"
  /\ perPid' = [perPid EXCEPT ![Unique[idx].pid] =
                  [ok |-> kres.ok, method |-> kres.method,
                   message |-> kres.message, errorCode |-> kres.errorCode]]
  /\ idx' = idx + 1
  /\ cpc' = "loop"
  /\ KillerReturn
  /\ UNCHANGED <<platform, tkenv, protVars, flagVars, tuiVars, parseVars, finderVars,
                 batch, ballowed, killCalls, refusal, reports, exitCode>>

\* killResolvedListeners: one line of for (const l of actionable)
ReportLine(l) ==
  LET r == perPid[l.pid] IN
  IF r.ok
  THEN [pid |-> l.pid, ok |-> TRUE, text |-> r.method,
        elevationHint |-> FALSE, forceHint |-> FALSE]
  ELSE [pid |-> l.pid, ok |-> FALSE,
        text |-> IF r.message = "undefined" THEN "failed" ELSE r.message,
        elevationHint |-> r.errorCode = "EPERM",
        forceHint |-> r.errorCode = "EPERM" /\ ~force /\ r.message = "protected"]

\* killResolvedListeners: the report loop
CliReport ==
  /\ cpc = "report"
  /\ reports' = [i \in 1..Len(Actionable) |-> ReportLine(Actionable[i])]
  /\ exitCode' = IF \E i \in 1..Len(Actionable) : ~perPid[Actionable[i].pid].ok
                 THEN 1 ELSE exitCode
  /\ cpc' = "exit"
  /\ KillerUntouched
  /\ UNCHANGED <<platform, tkenv, protVars, flagVars, tuiVars, parseVars, finderVars,
                 batch, ballowed, idx, perPid, killCalls, refusal>>

NextCli ==
  \/ CliPid
  \/ CliPidDone
  \/ CliByNames
  \/ CliByPorts
  \/ CliInteractive
  \/ CliLoop
  \/ CliKillDone
  \/ CliReport
  \/ KillerSteps

Spec == InitCli /\ [][NextCli]_vars

\* Every kill the program can make: through the command line, or with any
\* options (tree mode included) through Killer.kill
InitAll == InitCli \/ InitKiller
NextAll == NextCli \/ TreeStep
SpecAll == InitAll /\ [][NextAll]_vars

-----------------------------------------------------------------------------
(* ui/tui.ts: one selection session *)

MaxItems == 3       \* listeners handed to selectListeners

DefaultRows == 24   \* stdout.rows || 24
FooterRows == 2     \* lines reserved for the footer

\* Values of stdout.rows (0: undefined, not a terminal size)
RowChoices == {0, 3, 4, 5}

TuiUniverse ==
  { [protocol |-> "tcp", port |-> 80, pid |-> 8, localAddress |-> "0.0.0.0",
     processName |-> N_node, command |-> Undefined],
    [protocol |-> "tcp", port |-> 80, pid |-> 8, localAddress |-> "::",
     processName |-> N_node, command |-> Undefined],
    [protocol |-> "udp", port |-> 80, pid |-> 8, localAddress |-> "undefined",
     processName |-> N_node, command |-> Undefined],
    [protocol |-> "tcp", port |-> 22, pid |-> 7, localAddress |-> "0.0.0.0",
     processName |-> N_sshd, command |-> Undefined] }

\* cli.ts calls selectListeners on a non-empty list only
TuiInputs == UNION {[1..n -> TuiUniverse] : n \in 1..MaxItems}

\* visibleRows()
VisibleRowsOf(r) == Max(1, (IF r = 0 THEN DefaultRows ELSE r) - FooterRows)
VisibleRows == VisibleRowsOf(rows)

\* clamp(n, min, max)
Clamp(n, lo, hi) == Max(lo, Min(hi, n))

\* const isTTY = Boolean(stdin.isTTY && stdout.isTTY)
IsTTY_StdinOnly(t) == t.stdin

IsTTY(t) == t.stdin /\ t.stdout

\* The terminal after "Init terminal state": alternate screen entered, cursor
\* hidden, stdin flowing in raw mode, both handlers installed.
TermEntered ==
  [raw |-> TRUE, alt |-> TRUE, cursorShown |-> FALSE, flowing |-> TRUE,
   onData |-> TRUE, onSigInt |-> TRUE]

InitEffects ==
  <<"altScreenEnter", "hideCursor", "clearScreen", "resume", "setRawMode(true)",
    "on(data)", "on(SIGINT)">>

\* restore(): what it leaves of the terminal, and its effects in order
Restore_KeepsRawMode(t) ==
  [t EXCEPT !.cursorShown = TRUE, !.alt = FALSE, !.flowing = FALSE,
            !.onData = FALSE, !.onSigInt = FALSE]

Restore(t) ==
  [t EXCEPT !.cursorShown = TRUE, !.alt = FALSE, !.raw = FALSE, !.flowing = FALSE,
            !.onData = FALSE, !.onSigInt = FALSE]

RestoreEffects ==
  <<"showCursor", "altScreenExit", "setRawMode(false)", "pause",
    "removeListener(data)", "off(SIGINT)">>

\* (the selection engine never reads the platform)
InitTui ==
  /\ platform = "linux"
  /\ tkenv = <<>>
  /\ ProtIdle /\ EnvInit /\ KillerIdle /\ FlagsIdle /\ CliStart("idle")
  /\ ParseIdle /\ FinderIdle
  /\ tinput \in TuiInputs
  /\ tty \in [stdin : BOOLEAN, stdout : BOOLEAN]
  /\ tpc = "called"
  /\ items = <<>>
  /\ index = 0
  /\ top = 0
  /\ selected = {}
  /\ rows \in RowChoices
  /\ tdone = FALSE
  /\ tresult = NoSelection
  /\ term = TermInitial
  /\ tlog = <<>>
  /\ late = {}

TuiRest == <<platform, tkenv, protVars, envVars, killVars, flagVars, parseVars, finderVars,
             batch, ballowed, cpc, idx, perPid, killCalls, refusal, reports>>

\* selectListeners up to `return resultPromise`: the item list, the terminal
\* check, the state, the terminal initialisation and the first render()
SelectListeners ==
  /\ tpc = "called"
  /\ items' = Items(tinput)
  /\ IF ~IsTTY(tty)
       THEN /\ tpc' = "returned"
            /\ tresult' = [cancelled |-> TRUE, selected |-> <<>>, resolved |-> TRUE]
            /\ tlog' = tlog \o <<"resolve">>
            /\ UNCHANGED term
       ELSE /\ tpc' = "active"
            /\ term' = TermEntered
            /\ tlog' = tlog \o InitEffects
            /\ UNCHANGED tresult
  /\ index' = 0
  /\ top' = 0
  /\ selected' = {}
  /\ tdone' = FALSE
  /\ UNCHANGED <<TuiRest, exitCode, tinput, tty, rows, late>>

\* done(r), entered from the handler of event ev
Done(r, ev) ==
  IF tdone
    THEN UNCHANGED <<tdone, term, tlog, tresult, tpc>>
    ELSE /\ tdone' = TRUE
         /\ term' = Restore(term)
         /\ tlog' = tlog \o <<ev>> \o RestoreEffects \o <<"resolve">>
         /\ tresult' = [cancelled |-> r.cancelled, selected |-> r.selected,
                        resolved |-> TRUE]
         /\ tpc' = "returned"

\* move(delta), followed by render()
Move(delta) ==
  LET next == Clamp(index + delta, 0, Len(items) - 1)
      t1   == IF next < top THEN next ELSE top
      t2   == IF next >= t1 + VisibleRows THEN next - VisibleRows + 1 ELSE t1
  IN  /\ index' = next
      /\ top' = t2

TuiSession == <<tty, tpc, term, tlog, late>>

\* onData: j, k, the arrows, PageUp and PageDown
KeyMove ==
  /\ term.onData
  /\ ~tdone
  /\ \E k \in {"up", "down", "pageUp", "pageDown"} :
       Move(CASE k = "up" -> -1
                 [] k = "down" -> 1
                 [] k = "pageUp" -> -VisibleRows
                 [] k = "pageDown" -> VisibleRows)
  /\ UNCHANGED <<TuiRest, TuiSession, exitCode, tinput, items, selected, rows, tdone,
                 tresult>>

\* onData: Home
KeyHome ==
  /\ term.onData
  /\ ~tdone
  /\ index' = 0
  /\ top' = 0
  /\ UNCHANGED <<TuiRest, TuiSession, exitCode, tinput, items, selected, rows, tdone,
                 tresult>>

\* onData: End
KeyEnd ==
  /\ term.onData
  /\ ~tdone
  /\ index' = Len(items) - 1
  /\ top' = Max(0, Len(items) - VisibleRows)
  /\ UNCHANGED <<TuiRest, TuiSession, exitCode, tinput, items, selected, rows, tdone,
                 tresult>>

\* onData: Space
KeySpace ==
  /\ term.onData
  /\ ~tdone
  /\ selected' = ToggleSelected(selected, index)
  /\ UNCHANGED <<TuiRest, TuiSession, exitCode, tinput, items, index, top, rows, tdone,
                 tresult>>

\* onData: Enter
KeyEnter ==
  /\ term.onData
  /\ ~tdone
  /\ Done([cancelled |-> FALSE, selected |-> SelectedItems(items, selected)], "Enter")
  /\ UNCHANGED <<TuiRest, exitCode, tinput, tty, late, items, index, top, selected, rows>>

\* onData: Esc
KeyEsc_KeepsSelection ==
  /\ term.onData
  /\ ~tdone
  /\ Done([cancelled |-> TRUE, selected |-> SelectedItems(items, selected)], "Esc")
  /\ UNCHANGED <<TuiRest, exitCode, tinput, tty, late, items, index, top, selected, rows>>

KeyEsc ==
  /\ term.onData
  /\ ~tdone
  /\ Done([cancelled |-> TRUE, selected |-> <<>>], "Esc")
  /\ UNCHANGED <<TuiRest, exitCode, tinput, tty, late, items, index, top, selected, rows>>

\* onData: Ctrl+C without process.exitCode = 130
KeyCtrlC_KeepsExitCode ==
  /\ term.onData
  /\ ~tdone
  /\ exitCode' = exitCode
  /\ Done([cancelled |-> TRUE, selected |-> <<>>], "Ctrl-C")
  /\ UNCHANGED <<TuiRest, tinput, tty, late, items, index, top, selected, rows>>

\* onData: Ctrl+C
KeyCtrlC ==
  /\ term.onData
  /\ ~tdone
  /\ exitCode' = 130
  /\ Done([cancelled |-> TRUE, selected |-> <<>>], "Ctrl-C")
  /\ UNCHANGED <<TuiRest, tinput, tty, late, items, index, top, selected, rows>>

\* onSigInt: the process receives SIGINT while the handler is installed
OnSigInt ==
  /\ term.onSigInt
  /\ exitCode' = 130
  /\ Done([cancelled |-> TRUE, selected |-> <<>>], "SIGINT")
  /\ UNCHANGED <<TuiRest, tinput, tty, late, items, index, top, selected, rows>>

\* A keystroke or a SIGINT that arrives once restore() has paused stdin and
\* removed both handlers: no code of the session runs.
LateEvent ==
  /\ tpc = "returned"
  /\ \E ev \in {"data", "SIGINT"} :
       /\ ~(ev = "data" /\ term.onData)
       /\ ~(ev = "SIGINT" /\ term.onSigInt)
       /\ late' = late \cup {ev}
  /\ UNCHANGED <<TuiRest, exitCode, tinput, tty, tpc, term, tlog, items, index, top,
                 selected, rows, tdone, tresult>>

\* The terminal is resized between two keystrokes: nothing listens, the next
\* visibleRows() and render() read the new stdout.rows.
Resize ==
  /\ tpc = "active"
  /\ ~tdone
  /\ rows' \in RowChoices \ {0, rows}
  /\ UNCHANGED <<TuiRest, TuiSession, exitCode, tinput, items, index, top, selected,
                 tdone, tresult>>

NextTui ==
  \/ SelectListeners
  \/ KeyMove
  \/ KeyHome
  \/ KeyEnd
  \/ KeySpace
  \/ KeyEnter
  \/ KeyEsc
  \/ KeyCtrlC
  \/ OnSigInt
  \/ LateEvent
  \/ Resize

SpecTui == InitTui /\ [][NextTui]_vars

-----------------------------------------------------------------------------
(* cli.ts main, `kkp` without arguments: the terminal check, the scan, the  *)
(* selection session of ui/tui.ts and the kill batch on what it resolved    *)

\* `kkp`, `kkp --force`, `kkp --timeout <ms>`: no protocol flag, no dry run
InitInteractive ==
  /\ InitCli
  /\ mode = "tui"
  /\ allowed = {"tcp", "udp"}
  /\ ~dryRun

\* main, interactive branch, up to `await mod.selectListeners(listeners)`
CliSelect ==
  /\ cpc = "start"
  /\ mode = "tui"
  /\ tpc = "idle"
  /\ \E t \in [stdin : BOOLEAN, stdout : BOOLEAN] :
       /\ tty' = t
       /\ IF ~t.stdin \/ ~t.stdout
          THEN /\ exitCode' = 1
               /\ cpc' = "exit"
               /\ UNCHANGED <<tinput, tpc, rows>>
          ELSE IF ListAll = <<>>
          THEN /\ cpc' = "exit"
               /\ UNCHANGED <<exitCode, tinput, tpc, rows>>
          ELSE /\ cpc' = "select"
               /\ tinput' = ListAll
               /\ tpc' = "called"
               /\ rows' = DefaultRows   \* a terminal that shows the whole list
               /\ UNCHANGED exitCode
  /\ KillerUntouched
  /\ UNCHANGED <<platform, tkenv, protVars, flagVars, parseVars, finderVars,
                 batch, ballowed, idx, perPid, killCalls, refusal, reports,
                 items, index, top, selected, tdone, tresult, term, tlog, late>>

\* main, interactive branch, from the resolution of selectListeners up to the
\* loop of killResolvedListeners
CliSelected ==
  /\ cpc = "select"
  /\ tpc = "returned"
  /\ IF tresult.cancelled
     THEN /\ cpc' = "exit"
          /\ UNCHANGED <<batch, ballowed, idx>>
     ELSE EnterBatch(tresult.selected, allowed)
  /\ KillerUntouched
  /\ UNCHANGED <<platform, tkenv, protVars, flagVars, tuiVars, parseVars, finderVars,
                 perPid, killCalls, refusal, reports, exitCode>>

NextInteractive ==
  \/ CliSelect
  \/ SelectListeners
  \/ KeyMove
  \/ KeyHome
  \/ KeyEnd
  \/ KeySpace
  \/ KeyEnter
  \/ KeyEsc
  \/ KeyCtrlC
  \/ OnSigInt
  \/ CliSelected
  \/ CliLoop
  \/ CliKillDone
  \/ CliReport
  \/ KillerSteps

SpecInteractive == InitInteractive /\ [][NextInteractive]_vars

-----------------------------------------------------------------------------
(* The parsers and the deduplication on their own: one text of one tool *)

InitParse ==
  /\ platform = "linux"
  /\ tkenv = <<>>
  /\ ProtIdle /\ EnvInit /\ KillerIdle /\ FlagsIdle /\ CliStart("idle") /\ TuiIdle
  /\ FinderIdle
  /\ ppc = "input"
  /\ ptool \in {"ss", "lsof", "netstat"}
  /\ pproto \in IF ptool = "lsof" THEN {"tcp"} ELSE {"tcp", "udp"}
  /\ ptext \in TextsOver(LinesOf(ptool) \cup MalformedLines(ptool))
  /\ pout = <<>>
  /\ pdd = [once |-> <<>>, twice |-> <<>>, again |-> <<>>]

ParseRest == <<platform, tkenv, protVars, envVars, killVars, flagVars, cliVars, tuiVars,
               finderVars>>

\* parseSs(stdout, protocol, 'ss'), parseLsof(stdout, 'lsof') or
\* parseNetstat(stdout, proto) on the text
Parse ==
  /\ ppc = "input"
  /\ pout' = CASE ptool = "ss" -> ParseSs(ptext, pproto, "ss")
               [] ptool = "lsof" -> ParseLsof(ptext)
               [] ptool = "netstat" -> ParseNetstat(ptext, pproto)
  /\ ppc' = "parsed"
  /\ UNCHANGED <<ParseRest, ptool, pproto, ptext, pdd>>

\* dedupe on the parsed rows, on the rows twice over, and on its own result
DedupeRows ==
  /\ ppc = "parsed"
  /\ pdd' = [once |-> Dedupe(pout), twice |-> Dedupe(pout \o pout),
             again |-> Dedupe(Dedupe(pout))]
  /\ ppc' = "deduped"
  /\ UNCHANGED <<ParseRest, ptool, pproto, ptext, pout>>

NextParse ==
  \/ Parse
  \/ DedupeRows

SpecParse == InitParse /\ [][NextParse]_vars

-----------------------------------------------------------------------------
(* core/finder: one call of listAll() or findByPort(port, {protocols}) on  *)
(* the finder getFinder() selects, and utils/exec.ts execFile              *)

FinderPlatforms == {"linux", "darwin", "win32", "other"}

\* The external commands the finder of a platform runs
ToolsOf(p) ==
  CASE p = "linux" -> {"ss", "lsof"}
    [] p = "darwin" -> {"lsof"}
    [] p = "win32" -> {"netstat", "powershell.exe", "powershell", "tasklist"}
    [] OTHER -> {"lsof"}

FinderOps ==
  {[kind |-> "listAll", port |-> 0, protocols |-> {"tcp", "udp"}]}
  \cup {[kind |-> "findByPort", port |-> 80, protocols |-> ps] :
          ps \in {{"tcp", "udp"}, {"tcp"}, {"udp"}}}

NoTimeout == 0   \* execFile called without options.timeoutMs

LsofFallbackMs == 2000   \* PosixFallbackFinder.tryLsof
NetstatMs == 2000        \* WindowsFinder.runNetstat
PowerShellMs == 2000     \* runPowerShell
TasklistMs == 3000       \* tryTasklistInfo

\* How one execFile(cmd, args, {timeoutMs}) settles: the spawn fails with
\* ENOENT when the command is not installed; an installed command exits by
\* itself ("exit": the promise resolves with its output), or it never does,
\* and then the timer kills it and the promise rejects with ExecTimeoutError
\* ("timeout") or, with no timer set, the promise never settles ("never").
ExecFile(cmd, tmo) ==
  IF cmd \notin installed THEN {"ENOENT"}
  ELSE {"exit"} \cup (IF tmo > 0 THEN {"timeout"} ELSE {"never"})

\* One execFile invocation as the call saw it; rows: the records the parser
\* returned on its output
Exec(cmd, q, tmo, oc, n) ==
  [cmd |-> cmd, query |-> q, timeoutMs |-> tmo, outcome |-> oc, rows |-> n]

\* The sub-queries of the call, in the order the code runs them
Queries ==
  IF fop.kind = "listAll" THEN <<"tcp", "udp">>
  ELSE SelectSeq(<<"tcp", "udp">>, LAMBDA q : q \in fop.protocols)

IsLastQuery == fq = Queries[Len(Queries)]
NextQuery == IF fq = "tcp" /\ Len(Queries) = 2 THEN "udp" ELSE fq

\* The rows the parser of a tool returns on what the tool may print for a
\* sub-query: everything it may print when it lists all sockets, and what it
\* may print when asked for port 80
SsRows ==
  [q \in {"tcp", "udp"}, about80 \in BOOLEAN |->
     {ParseSs(t, q, "ss") : t \in IF about80 THEN TextsAbout80("ss") ELSE TextsOf("ss")}]

LsofRows ==
  [q \in {"tcp", "udp"}, about80 \in BOOLEAN |->
     {ParseLsof(t) : t \in IF about80 THEN LsofAbout80(q) ELSE TextsOf("lsof")}]

NetstatRows ==
  [q \in {"tcp", "udp"} |-> {ParseNetstat(t, q) : t \in TextsOf("netstat")}]

\* What the parser returns on the output of the running sub-query
Parsed(tool) ==
  CASE tool = "ss" -> SsRows[fq, fop.kind = "findByPort"]
    [] tool = "lsof" -> LsofRows[fq, fop.kind = "findByPort"]
    [] tool = "netstat" -> NetstatRows[fq]

ProcUser == <<"u", "s", "e", "r">>

\* enrichFromProc(listeners): comm, cmdline and the owner read from /proc
EnrichFromProc(ls) ==
  IF ~procfs THEN ls
  ELSE [i \in 1..Len(ls) |->
          [ls[i] EXCEPT !.processName = IF @ = Undefined \/ @ = <<>>
                                        THEN RealName(ls[i].pid) ELSE @,
                        !.command = RealName(ls[i].pid),
                        !.user = ProcUser]]

\* A pid the map of PowerShell or tasklist has no entry for
NoInfo == [name |-> Undefined, cmd |-> Undefined, user |-> Undefined, present |-> FALSE]

Info(name, cmd, user) == [name |-> name, cmd |-> cmd, user |-> user, present |-> TRUE]

\* enrichWindows: the loop over the listeners with the PowerShell map ps
OverlayPowerShell(ls, ps) ==
  [i \in 1..Len(ls) |->
     LET info == ps[ls[i].pid] IN
     IF ~info.present THEN ls[i]
     ELSE [ls[i] EXCEPT !.processName = IF Truthy(info.name) THEN info.name ELSE @,
                        !.command = IF Truthy(info.cmd) THEN info.cmd ELSE @,
                        !.user = IF Truthy(info.user) THEN info.user ELSE @]]

\* enrichWindows: the loop over the listeners with the tasklist map tl
OverlayTasklist(ls, tl) ==
  [i \in 1..Len(ls) |->
     LET info == tl[ls[i].pid] IN
     IF ~info.present THEN ls[i]
     ELSE [ls[i] EXCEPT !.processName = IF Truthy(info.name) THEN info.name ELSE @,
                        !.user = IF Truthy(info.user) THEN info.user ELSE @,
                        !.command = IF ~Truthy(@) /\ Truthy(info.name) THEN info.name ELSE @]]

\* The map that has the name, the command line and the owner of every pid
FullInfo == [p \in Pids |-> Info(RealName(p), RealName(p), ProcUser)]

\* enrichWindows with the full map of PowerShell
EnrichPowerShell(ls) == OverlayPowerShell(ls, FullInfo)

\* enrichWindows with the full map of tasklist
EnrichTasklist(ls) == OverlayTasklist(ls, FullInfo)

InitFinder ==
  /\ platform \in FinderPlatforms
  /\ tkenv = <<>>
  /\ ProtIdle /\ EnvInit /\ KillerIdle /\ FlagsIdle /\ CliStart("idle") /\ TuiIdle
  /\ ParseIdle
  /\ EnrichIdle
  /\ fop \in FinderOps
  /\ installed \in SUBSET ToolsOf(platform)
  /\ procfs \in IF platform = "linux" THEN BOOLEAN ELSE {FALSE}
  /\ fpc = "call"
  /\ fq = "none"
  /\ fout = <<>>
  /\ fres = <<>>
  /\ ferr = "none"
  /\ execs = <<>>

FinderRest == <<platform, tkenv, protVars, envVars, killVars, flagVars, cliVars, tuiVars,
                parseVars, fop, installed, procfs, etask, uidCacheLoaded, uidToUser>>

\* return <list>
Returns(list) ==
  /\ fpc' = "returned"
  /\ fres' = list
  /\ ferr' = "none"

\* throw <error>
Throws(err) ==
  /\ fpc' = "thrown"
  /\ fres' = <<>>
  /\ ferr' = err

\* getFinder() and the call, up to the first execFile
FinderCall ==
  /\ fpc = "call"
  /\ IF Queries = <<>>
       THEN /\ Returns(<<>>)
            /\ UNCHANGED fq
       ELSE /\ fpc' = CASE platform = "linux" -> "ss"
                        [] platform = "win32" -> "netstat"
                        [] OTHER -> "lsof"
            /\ fq' = Queries[1]
            /\ UNCHANGED <<fres, ferr>>
  /\ UNCHANGED <<FinderRest, fout, execs>>

\* LinuxSs with lsof run after ss whatever ss yielded
LinuxSs_ThenLsof ==
  /\ fpc = "ss"
  /\ \E oc \in ExecFile("ss", NoTimeout) :
     \E got \in IF oc = "exit" THEN Parsed("ss") ELSE {<<>>} :
       LET out == fout \o got IN
       /\ execs' = Append(execs, Exec("ss", fq, NoTimeout, oc, Len(got)))
       /\ CASE oc = "never" ->
                 /\ fpc' = "hung"
                 /\ UNCHANGED <<fq, fout, fres, ferr>>
            [] oc = "ENOENT" ->
                 /\ fpc' = "lsof"
                 /\ fq' = Queries[1]
                 /\ fout' = <<>>
                 /\ UNCHANGED <<fres, ferr>>
            [] oc = "exit" /\ ~IsLastQuery ->
                 /\ fq' = NextQuery
                 /\ fout' = out
                 /\ UNCHANGED <<fpc, fres, ferr>>
            [] oc = "exit" /\ IsLastQuery /\ out = <<>> ->
                 /\ fpc' = "lsof"
                 /\ fq' = Queries[1]
                 /\ fout' = <<>>
                 /\ UNCHANGED <<fres, ferr>>
            [] oc = "exit" /\ IsLastQuery /\ out # <<>> ->
                 /\ fpc' = "lsof"
                 /\ fq' = Queries[1]
                 /\ fout' = out
                 /\ UNCHANGED <<fres, ferr>>
  /\ UNCHANGED FinderRest

\* LinuxFinder: one execFile('ss', ...) of trySsListAll or trySsFindByPort, and
\* what follows it up to the next execFile
LinuxSs ==
  /\ fpc = "ss"
  /\ \E oc \in ExecFile("ss", NoTimeout) :
     \E got \in IF oc = "exit" THEN Parsed("ss") ELSE {<<>>} :
       LET out == fout \o got IN
       /\ execs' = Append(execs, Exec("ss", fq, NoTimeout, oc, Len(got)))
       /\ CASE oc = "never" ->
                 /\ fpc' = "hung"
                 /\ UNCHANGED <<fq, fout, fres, ferr>>
            [] oc = "ENOENT" ->
                 /\ fpc' = "lsof"
                 /\ fq' = Queries[1]
                 /\ fout' = <<>>
                 /\ UNCHANGED <<fres, ferr>>
            [] oc = "exit" /\ ~IsLastQuery ->
                 /\ fq' = NextQuery
                 /\ fout' = out
                 /\ UNCHANGED <<fpc, fres, ferr>>
            [] oc = "exit" /\ IsLastQuery /\ out = <<>> ->
                 /\ fpc' = "lsof"
                 /\ fq' = Queries[1]
                 /\ fout' = <<>>
                 /\ UNCHANGED <<fres, ferr>>
            [] oc = "exit" /\ IsLastQuery /\ out # <<>> ->
                 /\ fout' = EnrichFromProc(out)
                 /\ Returns(Dedupe(EnrichFromProc(out)))
                 /\ UNCHANGED fq
  /\ UNCHANGED FinderRest

\* LinuxFinder: one execFile('lsof', ...) of tryLsofListAll or
\* tryLsofFindByPort, and what follows it
LinuxLsof ==
  /\ fpc = "lsof"
  /\ platform = "linux"
  /\ \E oc \in ExecFile("lsof", NoTimeout) :
     \E got \in IF oc = "exit" THEN Parsed("lsof") ELSE {<<>>} :
       LET out == fout \o got IN
       /\ execs' = Append(execs, Exec("lsof", fq, NoTimeout, oc, Len(got)))
       /\ CASE oc = "never" ->
                 /\ fpc' = "hung"
                 /\ UNCHANGED <<fq, fout, fres, ferr>>
            [] oc = "ENOENT" ->
                 /\ fout' = <<>>
                 /\ Returns(<<>>)
                 /\ UNCHANGED fq
            [] oc = "exit" /\ ~IsLastQuery ->
                 /\ fq' = NextQuery
                 /\ fout' = out
                 /\ UNCHANGED <<fpc, fres, ferr>>
            [] oc = "exit" /\ IsLastQuery ->
                 /\ fout' = EnrichFromProc(out)
                 /\ Returns(Dedupe(EnrichFromProc(out)))
                 /\ UNCHANGED fq
  /\ UNCHANGED FinderRest

\* DarwinFinder: one runLsof(args), and what follows it
DarwinLsof ==
  /\ fpc = "lsof"
  /\ platform = "darwin"
  /\ \E oc \in ExecFile("lsof", NoTimeout) :
     \E got \in IF oc = "exit" THEN Parsed("lsof") ELSE {<<>>} :
       LET out == fout \o got IN
       /\ execs' = Append(execs, Exec("lsof", fq, NoTimeout, oc, Len(got)))
       /\ CASE oc = "never" ->
                 /\ fpc' = "hung"
                 /\ UNCHANGED <<fq, fout, fres, ferr>>
            [] oc = "ENOENT" ->
                 /\ Throws("lsof not found")
                 /\ UNCHANGED <<fq, fout>>
            [] oc = "exit" /\ ~IsLastQuery ->
                 /\ fq' = NextQuery
                 /\ fout' = out
                 /\ UNCHANGED <<fpc, fres, ferr>>
            [] oc = "exit" /\ IsLastQuery ->
                 /\ fout' = out
                 /\ Returns(Dedupe(out))
                 /\ UNCHANGED fq
  /\ UNCHANGED FinderRest

\* PosixFallbackFinder: one tryLsof(args), and what follows it
FallbackLsof ==
  /\ fpc = "lsof"
  /\ platform = "other"
  /\ \E oc \in ExecFile("lsof", LsofFallbackMs) :
     \E got \in IF oc = "exit" THEN Parsed("lsof") ELSE {<<>>} :
       LET out == fout \o got IN
       /\ execs' = Append(execs, Exec("lsof", fq, LsofFallbackMs, oc, Len(got)))
       /\ fout' = out
       /\ IF IsLastQuery
            THEN /\ Returns(Dedupe(out))
                 /\ UNCHANGED fq
            ELSE /\ fq' = NextQuery
                 /\ UNCHANGED <<fpc, fres, ferr>>
  /\ UNCHANGED FinderRest

\* .filter((l) => l.port === port) of WindowsFinder.findByPort
PortFilter(ls) ==
  IF fop.kind = "findByPort" THEN SelectSeq(ls, LAMBDA l : l.port = fop.port) ELSE ls

\* WindowsFinder: one runNetstat(args), and what follows it up to the next
\* execFile (listAll goes on to enrichWindows when it has a PID to look up)
WindowsNetstat ==
  /\ fpc = "netstat"
  /\ \E oc \in ExecFile("netstat", NetstatMs) :
     \E got \in IF oc = "exit" THEN Parsed("netstat") ELSE {<<>>} :
       LET out == fout \o PortFilter(got) IN
       /\ execs' = Append(execs, Exec("netstat", fq, NetstatMs, oc, Len(got)))
       /\ CASE oc = "ENOENT" ->
                 /\ Throws("netstat not found")
                 /\ UNCHANGED <<fq, fout>>
            [] oc = "timeout" ->
                 /\ Throws("ExecTimeoutError")
                 /\ UNCHANGED <<fq, fout>>
            [] oc = "exit" /\ ~IsLastQuery ->
                 /\ fq' = NextQuery
                 /\ fout' = out
                 /\ UNCHANGED <<fpc, fres, ferr>>
            [] oc = "exit" /\ IsLastQuery /\ (fop.kind = "findByPort" \/ out = <<>>) ->
                 /\ fout' = out
                 /\ Returns(Dedupe(out))
                 /\ UNCHANGED fq
            [] oc = "exit" /\ IsLastQuery /\ fop.kind = "listAll" /\ out # <<>> ->
                 /\ fout' = out
                 /\ fpc' = "powershell.exe"
                 /\ fres' = Dedupe(out)
                 /\ UNCHANGED <<fq, ferr>>
  /\ UNCHANGED FinderRest

\* What PowerShell or tasklist prints: information on the PIDs asked for, or
\* nothing the code can use
InfoOutputs == {"info", "nothing"}

\* enrichWindows: runPowerShell, first as powershell.exe, then as powershell
\* when that is not found, and JSON.parse of its output
WindowsPowerShell ==
  /\ fpc \in {"powershell.exe", "powershell"}
  /\ \E oc \in ExecFile(fpc, PowerShellMs) :
     \E o \in IF oc = "exit" THEN InfoOutputs ELSE {"nothing"} :
       /\ execs' = Append(execs, Exec(fpc, "pids", PowerShellMs, oc, 0))
       /\ CASE oc = "exit" /\ o = "info" ->
                 Returns(EnrichPowerShell(fres))
            [] oc = "ENOENT" /\ fpc = "powershell.exe" ->
                 /\ fpc' = "powershell"
                 /\ UNCHANGED <<fres, ferr>>
            [] OTHER ->
                 /\ fpc' = "tasklist"
                 /\ UNCHANGED <<fres, ferr>>
  /\ UNCHANGED <<FinderRest, fq, fout>>

\* enrichWindows: tryTasklistInfo, and the return of listAll
WindowsTasklist ==
  /\ fpc = "tasklist"
  /\ \E oc \in ExecFile("tasklist", TasklistMs) :
     \E o \in IF oc = "exit" THEN InfoOutputs ELSE {"nothing"} :
       /\ execs' = Append(execs, Exec("tasklist", "pids", TasklistMs, oc, 0))
       /\ Returns(IF o = "info" THEN EnrichTasklist(fres) ELSE fres)
  /\ UNCHANGED <<FinderRest, fq, fout>>

NextFinder ==
  \/ FinderCall
  \/ LinuxSs
  \/ LinuxLsof
  \/ DarwinLsof
  \/ FallbackLsof
  \/ WindowsNetstat
  \/ WindowsPowerShell
  \/ WindowsTasklist

SpecFinder == InitFinder /\ [][NextFinder]_vars

-----------------------------------------------------------------------------
(* core/finder/linux.ts: enrichFromProc(listeners) step by step.  Its tasks, *)
(* one per pid, all start at once and run between their awaits in any order. *)

\* uid values of /proc/<pid>/status: one with an account, one without
UidKnown == <<"1", "0", "0", "0">>
UidNoAccount == <<"4", "2", "4", "2">>

\* The (uid, name) pairs the loop over the lines of /etc/passwd sets
Passwd == {<<UidKnown, ProcUser>>}

\* uidToUser.get(uid) on the map m
MapGet(m, uid) ==
  IF \E e \in m : e[1] = uid THEN (CHOOSE e \in m : e[1] = uid)[2] ELSE Undefined

\* [...new Set(listeners.map((l) => l.pid))]
UniqPids(ls) == {ls[i].pid : i \in 1..Len(ls)}

\* The lists enrichment is called on: what parseSs and parseLsof return on
\* Linux, the deduplicated rows of parseNetstat on Windows
EnrichInputs ==
  IF platform = "linux"
  THEN ({ParseSs(t, "tcp", "ss") : t \in TextsOf("ss")}
          \cup {ParseLsof(t) : t \in TextsOf("lsof")}) \ {<<>>}
  ELSE {Dedupe(ParseNetstat(t, q)) : t \in TextsOf("netstat"), q \in {"tcp", "udp"}} \ {<<>>}

\* What PowerShell or tasklist may report on pid p: nothing, or an entry whose
\* fields are absent, empty or filled
InfoChoices(p) ==
  {NoInfo} \cup {Info(n, c, u) : n \in {Undefined, <<>>, RealName(p)},
                                c \in {Undefined, <<>>, RealName(p)},
                                u \in {Undefined, ProcUser}}

\* The maps tryPowerShellProcessInfo and tryTasklistInfo may return on the
\* pids of the listeners (a map without entries stands for null as well)
InfoMaps(ls) ==
  LET Mine == {f \in [UniqPids(ls) -> UNION {InfoChoices(p) : p \in UniqPids(ls)}] :
                 \A p \in UniqPids(ls) : f[p] \in InfoChoices(p)}
  IN  {[p \in Pids |-> IF p \in UniqPids(ls) THEN f[p] ELSE NoInfo] : f \in Mine}

\* enrichFromProc when Promise.all has started every task (each one awaits
\* its readFile of /proc/<pid>/comm); enrichWindows at its first await
InitEnrich ==
  /\ platform \in {"linux", "win32"}
  /\ tkenv = <<>>
  /\ ProtIdle /\ EnvInit /\ KillerIdle /\ FlagsIdle /\ CliStart("idle") /\ TuiIdle
  /\ ParseIdle
  /\ fop = [kind |-> "listAll", port |-> 0, protocols |-> {"tcp", "udp"}]
  /\ installed = ToolsOf(platform)
  /\ procfs = (platform = "linux")
  /\ fpc = "enrich"
  /\ fq = "none"
  /\ fout \in EnrichInputs
  /\ fres = <<>>
  /\ ferr = "none"
  /\ execs = <<>>
  /\ etask = [p \in Pids |-> IF platform = "linux" /\ p \in UniqPids(fout)
                             THEN [NoTask EXCEPT !.pc = "comm"] ELSE NoTask]
  /\ uidCacheLoaded = FALSE
  /\ uidToUser = {}

EnrichRest == <<platform, tkenv, protVars, envVars, killVars, flagVars, cliVars, tuiVars,
                parseVars, fop, installed, procfs, fq, ferr, execs>>

\* WriteBack with the user assigned whether or not the lookup found one
WriteBack_AssignsUser(ls, p, comm, cmdline, user) ==
  [i \in 1..Len(ls) |->
     IF ls[i].pid # p THEN ls[i]
     ELSE [ls[i] EXCEPT !.processName = IF Truthy(comm) /\ ~Truthy(@) THEN comm ELSE @,
                        !.command = IF Truthy(cmdline) THEN cmdline ELSE @,
                        !.user = user]]

\* for (const l of listeners) { if (l.pid !== pid) continue; ... }
WriteBack(ls, p, comm, cmdline, user) ==
  [i \in 1..Len(ls) |->
     IF ls[i].pid # p THEN ls[i]
     ELSE [ls[i] EXCEPT !.processName = IF Truthy(comm) /\ ~Truthy(@) THEN comm ELSE @,
                        !.command = IF Truthy(cmdline) THEN cmdline ELSE @,
                        !.user = IF Truthy(user) THEN user ELSE @]]

\* readFile(`${base}/comm`) settles: the name, or a rejection that is ignored
ReadComm(p) ==
  /\ fpc = "enrich"
  /\ etask[p].pc = "comm"
  /\ \E c \in {Undefined, RealName(p)} :
       etask' = [etask EXCEPT ![p].comm = c, ![p].pc = "cmdline"]
  /\ UNCHANGED <<EnrichRest, fpc, fout, fres, uidCacheLoaded, uidToUser>>

\* readFile(`${base}/cmdline`) settles: the command line, an empty one, or a
\* rejection that is ignored
ReadCmdline(p) ==
  /\ fpc = "enrich"
  /\ etask[p].pc = "cmdline"
  /\ \E c \in {Undefined, <<>>, RealName(p)} :
       etask' = [etask EXCEPT ![p].cmdline = c, ![p].pc = "status"]
  /\ UNCHANGED <<EnrichRest, fpc, fout, fres, uidCacheLoaded, uidToUser>>

\* readFile(`${base}/status`) settles, and the task runs on to its next await:
\* without a uid to the loop over the listeners; with one into uidLookup,
\* which starts reading /etc/passwd when the table is not marked loaded and
\* otherwise answers from the table as it is now.  (The task resumes after the
\* answer in a later turn; nothing another task does in between changes what
\* it writes.)
ReadStatus(p) ==
  /\ fpc = "enrich"
  /\ etask[p].pc = "status"
  /\ \E u \in {Undefined, UidKnown, UidNoAccount} :
       IF u = Undefined
       THEN /\ etask' = [etask EXCEPT ![p].pc = "done"]
            /\ fout' = WriteBack(fout, p, etask[p].comm, etask[p].cmdline, Undefined)
            /\ UNCHANGED <<uidCacheLoaded, uidToUser>>
       ELSE IF ~uidCacheLoaded
       THEN /\ uidCacheLoaded' = TRUE
            /\ etask' = [etask EXCEPT ![p].uid = u, ![p].pc = "passwd"]
            /\ UNCHANGED <<fout, uidToUser>>
       ELSE /\ etask' = [etask EXCEPT ![p].uid = u, ![p].pc = "done"]
            /\ fout' = WriteBack(fout, p, etask[p].comm, etask[p].cmdline, MapGet(uidToUser, u))
            /\ UNCHANGED <<uidCacheLoaded, uidToUser>>
  /\ UNCHANGED <<EnrichRest, fpc, fres>>

\* readFile('/etc/passwd') settles in the task that started it: the table is
\* filled (or the rejection ignored), uidLookup answers, the task writes
ReadPasswd(p) ==
  /\ fpc = "enrich"
  /\ etask[p].pc = "passwd"
  /\ \E readable \in BOOLEAN :
       LET table == IF readable THEN uidToUser \cup Passwd ELSE uidToUser IN
       /\ uidToUser' = table
       /\ fout' = WriteBack(fout, p, etask[p].comm, etask[p].cmdline, MapGet(table, etask[p].uid))
  /\ etask' = [etask EXCEPT ![p].pc = "done"]
  /\ UNCHANGED <<EnrichRest, fpc, fres, uidCacheLoaded>>

\* Promise.all settles; listAll returns dedupe(out)
EnrichDone ==
  /\ fpc = "enrich"
  /\ platform = "linux"
  /\ \A p \in Pids : etask[p].pc \in {"none", "done"}
  /\ Returns(Dedupe(fout))
  /\ UNCHANGED <<EnrichRest, fout, etask, uidCacheLoaded, uidToUser>>

\* enrichWindows: tryPowerShellProcessInfo settles; with an entry in its map
\* the listeners are overlaid and listAll returns, otherwise tasklist is next
WinPowerShellInfo ==
  /\ fpc = "enrich"
  /\ platform = "win32"
  /\ \E ps \in InfoMaps(fout) :
       IF \E p \in Pids : ps[p].present
       THEN /\ fout' = OverlayPowerShell(fout, ps)
            /\ Returns(OverlayPowerShell(fout, ps))
       ELSE /\ fpc' = "enrich-tasklist"
            /\ UNCHANGED <<fout, fres, ferr>>
  /\ UNCHANGED <<FinderRest, fq, execs>>

\* enrichWindows: tryTasklistInfo settles, and listAll returns
WinTasklistInfo ==
  /\ fpc = "enrich-tasklist"
  /\ \E tl \in InfoMaps(fout) :
       /\ \A p \in Pids : tl[p].cmd = Undefined
       /\ fout' = OverlayTasklist(fout, tl)
       /\ Returns(OverlayTasklist(fout, tl))
  /\ UNCHANGED <<FinderRest, fq, execs>>

NextEnrich ==
  \/ WinPowerShellInfo
  \/ WinTasklistInfo
  \/ \E p \in Pids : ReadComm(p)
  \/ \E p \in Pids : ReadCmdline(p)
  \/ \E p \in Pids : ReadStatus(p)
  \/ \E p \in Pids : ReadPasswd(p)
  \/ EnrichDone

SpecEnrich == InitEnrich /\ [][NextEnrich]_vars

-----------------------------------------------------------------------------
(* Properties *)

Posix == platform # "win32"

SignalOps == {"SIGTERM", "SIGKILL"}
KillOps == SignalOps \cup {"taskkill /T", "taskkill /T /F"}

\* The signal sends aimed at pid p, in order
SignalsTo(p) == LET Mine(e) == e.pid = p /\ e.op \in SignalOps IN SelectSeq(log, Mine)

\* The (op, res) pairs of the entries of a log
OpsOf(l) == [i \in 1..Len(l) |-> <<l[i].op, l[i].res>>]

NeverTouched(p) ==
  /\ \A i \in 1..Len(log) : log[i].pid # p
  /\ \A i \in 1..Len(killCalls) : killCalls[i] # p

\* The refusal the orchestrator records for a listener the classifier protects
RefusalOf(l) ==
  [ok |-> FALSE, method |-> "undefined",
   message |-> ProtectionFor(l).reason, errorCode |-> "EPERM"]

Denylisted(p) ==
  IF platform = "win32" THEN WindowsNameHit(ToLowerCase(RealName(p)))
  ELSE PosixNameHit(ToLowerCase(RealName(p)))

\* C2: without --force, no signal is sent and no taskkill is run for a
\* process whose real name is on the platform denylist, on any kill path and
\* whether or not discovery filled in the process name.
C2_DenylistedNeverKilled ==
  ~force => \A i \in 1..Len(log) : log[i].op \in KillOps => ~Denylisted(log[i].pid)

\* Where the pid argument of a POSIX kill with a grace timeout exited
ExitedInGraceWindow ==
  /\ Posix
  /\ kpc = "done"
  /\ ktimeout > 0
  /\ diedDuring \in {"grace", "grace-last"}

SigkillSends(p) ==
  {i \in 1..Len(log) : log[i].pid = p /\ log[i].op = "SIGKILL"}

\* C3 as stated: whenever the target exits within the grace window after
\* SIGTERM, kill returns {pid, ok:true, method:"SIGTERM"} and no SIGKILL send
\* is attempted for the pid.
C3_NoSigkillAfterExitInGrace ==
  ExitedInGraceWindow =>
    /\ kres = Result(kroot, TRUE, "SIGTERM", "undefined", "undefined")
    /\ SigkillSends(kroot) = {}

\* C3: whenever the target exits within the grace window after SIGTERM, kill
\* returns {pid, ok:true, method:"SIGTERM"}; no SIGKILL send is attempted when
\* a liveness poll of the window still follows the exit, and when the exit
\* falls into the window's last sleep exactly one SIGKILL send is attempted,
\* which fails with ESRCH.
C3_SigtermResultForExitInGrace ==
  ExitedInGraceWindow =>
    /\ kres = Result(kroot, TRUE, "SIGTERM", "undefined", "undefined")
    /\ (diedDuring = "grace" => SigkillSends(kroot) = {})
    /\ (diedDuring = "grace-last" =>
          OpsOf(SignalsTo(kroot)) = << <<"SIGTERM", "ok">>, <<"SIGKILL", "ESRCH">> >>)

\* A kill whose target exited during the last sleep of the grace window:
\* answered SIGTERM after a SIGKILL send that found no process
C3_Witness ==
  /\ ExitedInGraceWindow
  /\ diedDuring = "grace-last"
  /\ kres.method = "SIGTERM" /\ kres.ok
  /\ \E i \in SigkillSends(kroot) : log[i].res = "ESRCH"

C5_SurvivorFailsAfterConfirm ==
  (Posix /\ kpc = "done" /\ proc[kroot] = "alive") =>
    /\ kres = Result(kroot, FALSE, "SIGKILL", "process still alive", "undefined")
    /\ OpsOf(SignalsTo(kroot)) = << <<"SIGTERM", "ok">>, <<"SIGKILL", "ok">> >>
    /\ elapsed >= ConfirmMs

\* A target that survived both signals of a kill with a grace timeout
C5_Witness ==
  /\ Posix /\ kpc = "done" /\ proc[kroot] = "alive"
  /\ ktimeout > 0
  /\ kres.message = "process still alive"

\* C6: on both killers, when isAlive returns false kill has returned
\* {pid, ok:true, method:"already-exited"} and has sent no signal and run no
\* ps and no taskkill, tree mode included.
C6_GoneMeansNothingSent ==
  kalive = "gone" =>
    /\ log = <<>>
    /\ kpc = "done"
    /\ kres = Result(kroot, TRUE, "already-exited", "undefined", "undefined")

\* A POSIX kill in tree mode on a pid that is gone
C6_Witness ==
  /\ kalive = "gone" /\ ktree /\ Posix /\ kpc = "done"
  /\ kres.method = "already-exited"

\* C7: protectionFor answers protected for PID 0 and PID 4 on Windows and for
\* every PID <= 1 elsewhere, whatever the other fields of the listener are.
C7_SystemPidsProtected ==
  (/\ protOut # NoVerdict
   /\ \/ platform = "win32" /\ protInput.pid \in {0, 4}
      \/ platform # "win32" /\ protInput.pid <= 1) => protOut.protected

\* PID 1 on Linux with a harmless name, port and command, classified
C7_Witness ==
  /\ protOut # NoVerdict /\ protOut.protected
  /\ platform = "linux" /\ protInput.pid = 1
  /\ protInput.processName = N_node /\ protInput.port = 80
  /\ protInput.command = Undefined

Methods == {"already-exited", "SIGTERM", "SIGKILL", "taskkill", "taskkill /F"}

\* The last thing kill did to its pid failed
LastSendFailed ==
  /\ log # <<>>
  /\ log[Len(log)].pid = kroot
  /\ log[Len(log)].op \in KillOps
  /\ log[Len(log)].res \in {"EPERM", "fail"}

\* C8: kill never ends in a thrown error; what it returns is a KillResult for
\* its pid, with ok:false and a message when its last signal or taskkill
\* failed or the target is still alive; and once the loop of a kill batch is
\* over every PID of the batch has its result, each PID that was neither
\* refused nor a dry run having had killer.kill invoked.
C8_KillNeverThrows ==
  /\ kpc # "thrown"
  /\ kpc = "done" =>
       /\ kres.pid = kroot
       /\ kres.ok \in BOOLEAN
       /\ kres.method \in Methods
       /\ (LastSendFailed \/ (Posix /\ proc[kroot] = "alive")) =>
            (~kres.ok /\ kres.message # "undefined")
  /\ (mode \in {"ports", "names", "tui"} /\ cpc \in {"report", "exit"}) =>
       \A i \in 1..Len(Unique) :
          /\ perPid[Unique[i].pid] # NoPerPid
          /\ (~dryRun /\ (force \/ ~ProtectionFor(Unique[i]).protected)) =>
               \E j \in 1..Len(killCalls) : killCalls[j] = Unique[i].pid

\* A batch whose first kill failed and whose second kill went through
C8_Witness ==
  /\ cpc = "exit" /\ Len(killCalls) = 2 /\ Len(Unique) = 2
  /\ ~perPid[killCalls[1]].ok
  /\ perPid[killCalls[2]].ok
  /\ perPid[killCalls[2]].method \in {"SIGTERM", "SIGKILL", "taskkill", "taskkill /F"}

NavKeystroke == KeyMove \/ KeyHome \/ KeyEnd

CursorInRange == index \in 0..(Len(items) - 1)
TopInRange == top \in 0..Max(0, Len(items) - VisibleRows)

\* C9: after every navigation keystroke the cursor is in [0, itemCount-1] and
\* the viewport top is in [0, max(0, itemCount - viewportHeight)], the
\* viewport height being the one of that moment.
C9_CursorAndTopInRange == [][NavKeystroke => (CursorInRange' /\ TopInRange')]_vars

\* The j-th smallest element of a set of numbers
NthSmallest(S, j) == CHOOSE x \in S : Cardinality({y \in S : y < x}) = j - 1

\* its is the sorted, deduplicated list of the listeners ls
IsSortedDedup(its, ls) ==
  /\ \A a, b \in 1..Len(its) : ListenerKey(its[a]) = ListenerKey(its[b]) => a = b
  /\ \A a, b \in 1..Len(its) : a < b => Compare(its[a], its[b]) <= 0
  /\ \A a \in 1..Len(its) : \E b \in 1..Len(ls) : its[a] = ls[b]
  /\ \A b \in 1..Len(ls) : \E a \in 1..Len(its) : ListenerKey(its[a]) = ListenerKey(ls[b])

\* C10: Enter resolves the session with cancelled:false and exactly the items
\* of the sorted, deduplicated list at the indices of the selection set, in
\* list order (none when the set is empty, the item at i when it is {i}); and
\* each Space flips the membership of the cursor index and of no other.
C10_EnterYieldsSelection ==
  [][/\ KeySpace =>
          /\ (index \in selected') # (index \in selected)
          /\ \A i \in 0..(Len(items) - 1) : i # index => ((i \in selected') = (i \in selected))
     /\ KeyEnter =>
          /\ IsSortedDedup(items, tinput)
          /\ tresult'.resolved /\ ~tresult'.cancelled
          /\ Len(tresult'.selected) = Cardinality(selected)
          /\ \A j \in 1..Cardinality(selected) :
               tresult'.selected[j] = items[NthSmallest(selected, j) + 1]
    ]_vars

\* Space on index 1, the cursor moved away again, then Enter: item 1 alone
C10_Witness ==
  /\ tresult.resolved /\ ~tresult.cancelled
  /\ selected = {1} /\ index = 0
  /\ Len(items) = 3
  /\ tresult.selected = <<items[2]>>

\* ---- C11..C13: how a selection session ends

EndEvents == {"Enter", "Esc", "Ctrl-C", "SIGINT"}

EndedBy(ev) == \E i \in 1..Len(tlog) : tlog[i] = ev

CancelledEmpty == [cancelled |-> TRUE, selected |-> <<>>, resolved |-> TRUE]

\* C11: a session ended by Esc, by Ctrl-C or by SIGINT has resolved with
\* cancelled:true and an empty selected list, whatever was toggled on before.
C11_CancelResolvesEmpty ==
  (\E ev \in {"Esc", "Ctrl-C", "SIGINT"} : EndedBy(ev)) => tresult = CancelledEmpty

\* Esc pressed away from the first row with an item toggled on
C11_Witness ==
  /\ EndedBy("Esc")
  /\ selected # {}
  /\ index > 0
  /\ tresult = CancelledEmpty

\* C12: a session resolves exactly once; when it has resolved, raw mode is off,
\* the main screen is back, the cursor is shown and both handlers are removed,
\* all of it done before the promise was resolved; events arriving after the
\* resolution change nothing of the session.
RestoredThenResolved ==
  /\ term = TermInitial
  /\ tresult.resolved
  /\ \E ev \in EndEvents :
       tlog = InitEffects \o <<ev>> \o RestoreEffects \o <<"resolve">>

C12_ResolvesOnceRestored ==
  /\ [](tpc = "active" => (~tdone /\ ~tresult.resolved /\ tlog = InitEffects))
  /\ []((tpc = "returned" /\ IsTTY(tty)) => (tdone /\ RestoredThenResolved))
  /\ [][tpc = "returned" =>
          UNCHANGED <<tpc, tdone, tresult, term, tlog, exitCode, items, index, top,
                      selected>>]_vars

\* a session ended by SIGINT, with a keystroke and a second SIGINT after it
C12_Witness ==
  /\ tdone
  /\ EndedBy("SIGINT")
  /\ late = {"data", "SIGINT"}
  /\ RestoredThenResolved

\* C13: when stdin or stdout is not a terminal, selectListeners resolves
\* with cancelled:true and an empty list, and the terminal is never touched: no
\* raw mode, no alternate screen, no handler.
C13_NonTtyCancelsUntouched ==
  (tpc \in {"active", "returned"} /\ ~(tty.stdin /\ tty.stdout)) =>
    /\ tpc = "returned"
    /\ tresult = CancelledEmpty
    /\ term = TermInitial
    /\ tlog = <<"resolve">>
    /\ ~tdone

\* stdin is a terminal, stdout is redirected
C13_Witness ==
  /\ tpc = "returned"
  /\ tty.stdin /\ ~tty.stdout
  /\ tresult = CancelledEmpty
  /\ tlog = <<"resolve">>

\* ---- C14..C19: discovery

FinderEnded == fpc \in {"returned", "thrown"}

\* The position in fout of the first row that has the key of row l
FirstOfKey(l) ==
  CHOOSE j \in 1..Len(fout) :
    /\ RowKey(fout[j]) = RowKey(l)
    /\ \A k \in 1..(j - 1) : RowKey(fout[k]) # RowKey(l)

\* C14: the list a finder returns holds no two rows with the same
\* (protocol, port, pid, localAddress) key; it holds one row for every key the
\* tools reported, in the order the keys first appeared (tcp query before udp
\* query), and that row is the first one reported with the key.
C14_ResultUniqueFirstKept ==
  fpc = "returned" =>
    /\ \A i, j \in 1..Len(fres) : RowKey(fres[i]) = RowKey(fres[j]) => i = j
    /\ \A j \in 1..Len(fout) : \E i \in 1..Len(fres) : RowKey(fres[i]) = RowKey(fout[j])
    /\ \A i \in 1..Len(fres) :
         /\ \E j \in 1..Len(fout) : RowKey(fout[j]) = RowKey(fres[i])
         /\ fres[i].raw = fout[FirstOfKey(fres[i])].raw
    /\ \A i, j \in 1..Len(fres) : i < j => FirstOfKey(fres[i]) < FirstOfKey(fres[j])
    /\ \A i, j \in 1..Len(fout) :
         (i < j /\ fout[i].source # "lsof") =>
           ~(fout[i].protocol = "udp" /\ fout[j].protocol = "tcp")

\* two different rows with one key were reported, and a row of another key
C14_Witness ==
  /\ fpc = "returned"
  /\ Len(fres) = 2
  /\ \E i, j \in 1..Len(fout) :
       i < j /\ RowKey(fout[i]) = RowKey(fout[j]) /\ fout[i].raw # fout[j].raw

\* C15: deduplicating a list of parsed rows concatenated with itself gives
\* what deduplicating the list gives, and deduplicating a deduplicated list
\* returns it unchanged.
C15_DedupeIdempotent ==
  ppc = "deduped" => (pdd.twice = pdd.once /\ pdd.again = pdd.once)

\* two rows with one key among the parsed rows
C15_Witness ==
  /\ ppc = "deduped"
  /\ Len(pout) = 2
  /\ Len(pdd.once) = 1
  /\ pout[1].raw # pout[2].raw

Parsed1 == ppc \in {"parsed", "deduped"}

\* the line has yielded a row
Kept(line) == \E i \in 1..Len(pout) : pout[i].raw = line

\* A netstat row of protocol p, by its Proto column
NetstatRowOf(line, p) == line # <<>> /\ ToLowerCase(line[1]) = p

\* A netstat UDP row (no state column) with an address:port that
\* /^(.*):(\d+)$/ matches and a PID that parseInt reads
UdpRowParsable(line) ==
  /\ NetstatRowOf(line, <<"u", "d", "p">>)
  /\ Len(line) >= 4
  /\ PortColon(line[2]) # 0
  /\ IsFinite(ParseInt(line[4]))

ShapelessYieldNothing ==
  /\ Len(pout) <= Len(ptext)
  /\ ptool = "ss" =>
       \A i \in 1..Len(ptext) : Len(ptext[i]) < 5 => ~Kept(ptext[i])
  /\ ptool = "lsof" =>
       \A i \in 1..Len(ptext) : Len(ptext[i]) < 9 => ~Kept(ptext[i])
  /\ ptool = "netstat" =>
       \A i \in 1..Len(ptext) :
         (/\ NetstatRowOf(ptext[i], <<"t", "c", "p">>)
          /\ Coalesce(Field(ptext[i], 4), <<>>) # <<>>
          /\ ToLowerCase(Field(ptext[i], 4)) # <<"l", "i", "s", "t", "e", "n", "i", "n", "g">>) => ~Kept(ptext[i])

\* C16 as stated: every parser returns a list on every text; an ss line of
\* fewer than 5 fields and a netstat TCP row in another state than LISTENING
\* yield no row; every netstat UDP row with a parsable address:port and PID
\* yields a row.
C16_UdpRowAlwaysKept ==
  Parsed1 =>
    /\ ShapelessYieldNothing
    /\ ptool = "netstat" =>
         \A i \in 1..Len(ptext) : UdpRowParsable(ptext[i]) => Kept(ptext[i])

\* C16, amended: as above, with a netstat UDP row yielding a row when its
\* address:port and PID are parsable and its port is not 0.
C16_UdpRowKeptUnlessPortZero ==
  Parsed1 =>
    /\ ShapelessYieldNothing
    /\ ptool = "netstat" =>
         \A i \in 1..Len(ptext) :
           UdpRowParsable(ptext[i]) =>
             (Kept(ptext[i]) <=> ParseWindowsAddressPort(ptext[i][2]).port # 0)

\* netstat printed an ESTABLISHED TCP row and a UDP row: the UDP row only is kept
C16_Witness ==
  /\ Parsed1
  /\ ptool = "netstat"
  /\ Len(ptext) = 2
  /\ NetstatRowOf(ptext[1], <<"t", "c", "p">>)
  /\ ToLowerCase(Field(ptext[1], 4)) = <<"e", "s", "t", "a", "b", "l", "i", "s", "h", "e", "d">>
  /\ UdpRowParsable(ptext[2])
  /\ Len(pout) = 1
  /\ pout[1].raw = ptext[2]

\* The commands a platform's finder discovers listeners with
DiscoveryTools == ToolsOf(platform) \ {"powershell.exe", "powershell", "tasklist"}

NotFound == {"lsof not found", "netstat not found"}

\* C17: a finder call does not fail while a discovery tool of the platform
\* is installed and exits, and when none is installed the call throws a
\* tool-not-found error instead of returning a list.
C17_NoToolMeansNotFound ==
  FinderEnded =>
    /\ ferr \in NotFound => DiscoveryTools \cap installed = {}
    /\ DiscoveryTools \cap installed = {} => (fpc = "thrown" /\ ferr \in NotFound)

TimedOut(i) == execs[i].outcome = "timeout" /\ execs[i].cmd \in DiscoveryTools

\* C18: a discovery command that timed out contributes nothing and the call
\* does not throw because of it: the call goes on to the remaining
\* sub-queries and returns.
C18_TimeoutContributesNothing ==
  (\E i \in 1..Len(execs) : TimedOut(i)) =>
    /\ fpc # "thrown"
    /\ fpc = "returned" =>
         \A q \in fop.protocols : \E j \in 1..Len(execs) : execs[j].query = q

\* C19: every execFile invocation of a finder call carries a timeout, and no
\* call waits forever for a command that never exits.
C19_EveryCommandTimed ==
  /\ \A i \in 1..Len(execs) : execs[i].timeoutMs > 0
  /\ fpc # "hung"

\* ---- C20: the Windows kill protocol

\* C20: on Windows the first command of kill is taskkill /PID <pid> /T; the
\* forced command (/T /F) is run if and only if the first one did not report
\* success, right after it and once; kill returns method "taskkill" when the
\* first command succeeded, "taskkill /F" when only the forced one did, and
\* otherwise the failure of the forced command.
C20_WindowsEscalatesOnce ==
  (platform = "win32" /\ kpc # "idle") =>
    /\ Len(log) <= 2
    /\ Len(log) >= 1 => log[1].op = "taskkill /T"
    /\ Len(log) = 2 => (log[1].res = "fail" /\ log[2].op = "taskkill /T /F")
    /\ kpc = "win_first" => log = <<>>
    /\ kpc = "win_forced" => (Len(log) = 1 /\ log[1].res = "fail")
    /\ (kpc = "done" /\ kalive = "alive") =>
         /\ Len(log) >= 1
         /\ log[1].res = "ok" =>
              /\ Len(log) = 1
              /\ kres = Result(kroot, TRUE, "taskkill", "undefined", "undefined")
         /\ log[1].res = "fail" =>
              /\ Len(log) = 2
              /\ log[2].res = "ok" =>
                   kres = Result(kroot, TRUE, "taskkill /F", "undefined", "undefined")
              /\ log[2].res = "fail" =>
                   kres = Result(kroot, FALSE, "taskkill", log[2].message,
                                 log[2].errorCode)

\* both commands failed, the forced one with access denied
C20_Witness ==
  /\ platform = "win32"
  /\ kpc = "done"
  /\ Len(log) = 2
  /\ log[1].res = "fail"
  /\ log[2].res = "fail"
  /\ kres.errorCode = "EPERM"
  /\ ~kres.ok

\* ---- C21..C23: what WindowsKiller.kill makes of taskkill's output

\* The taskkill runs of the kill so far, as they settled
RunsSoFar == [i \in 1..Len(log) |-> tkenv[i]]

\* The combined output of a run matches one of the phrases
Says(run, phrases) == run.kind = "exit" /\ run.out \cap phrases # {}

WindowsReturned == platform = "win32" /\ kpc = "done" /\ kalive = "alive"

\* C21: on Windows, when the output of the taskkill that ended the kill
\* matches a not-found pattern (and holds no success token), kill returns
\* ok:true with method "already-exited".
C21_NotFoundIsAlreadyExited ==
  WindowsReturned =>
    LET last == RunsSoFar[Len(log)] IN
    (Says(last, NotFoundPhrases) /\ ~Says(last, SuccessPhrases)) =>
      (kres.ok /\ kres.method = "already-exited")

\* C22: a taskkill output that holds a success token, the non-English one
\* alone included, is classified ok:true whatever the exit code and whatever
\* not-found or access-denied phrase stands beside it: the graceful command
\* that printed it ends the kill with ok:true, the forced one likewise.
C22_SuccessTokenWins ==
  platform = "win32" =>
    \A i \in 1..Len(log) :
      Says(RunsSoFar[i], SuccessPhrases) =>
        /\ RunTaskkill(kroot, RunsSoFar[i]) =
             Result(kroot, TRUE, "taskkill", "undefined", "undefined")
        /\ log[i].res = "ok"
        /\ i = Len(log)
        /\ kpc = "done"
        /\ kres = Result(kroot, TRUE, IF i = 1 THEN "taskkill" ELSE "taskkill /F",
                         "undefined", "undefined")

\* the graceful taskkill exited with code 1 and printed the non-English
\* success token beside an access-denied phrase
C22_Witness ==
  /\ WindowsReturned
  /\ Len(log) = 1
  /\ RunsSoFar[1].out = {"zh-success", "Access is denied"}
  /\ RunsSoFar[1].code = 1
  /\ kres.ok

\* C23: on Windows, when the graceful and the forced taskkill both print an
\* access-denied phrase and no success token, kill returns ok:false with
\* errorCode "EPERM", whatever the exit codes, and runs nothing after the
\* forced command.
C23_DeniedTwiceIsEperm ==
  (platform = "win32" /\ kpc # "idle") =>
    /\ Len(log) <= 2
    /\ (/\ Len(log) = 2
        /\ \A i \in 1..2 : /\ Says(RunsSoFar[i], DeniedPhrases)
                            /\ ~Says(RunsSoFar[i], SuccessPhrases)) =>
         /\ kpc = "done"
         /\ ~kres.ok
         /\ kres.errorCode = "EPERM"

\* ---- C24: the corrective hints of the report

\* killer.kill was invoked for pid p
Invoked(p) == \E j \in 1..Len(killCalls) : killCalls[j] = p

\* The operating system denied the kill of pid p: a signal send failed with
\* EPERM, or the forced taskkill was answered with access denied
OsDenied(p) ==
  \E i \in 1..Len(log) :
    /\ log[i].pid = p
    /\ \/ log[i].res = "EPERM"
       \/ /\ log[i].op = "taskkill /T /F"
          /\ log[i].res = "fail"
          /\ log[i].errorCode = "EPERM"

\* C24: on every kill path the hint printed with a failure names its cause: a
\* PID the safety classifier refused gets the --force hint and no elevation
\* hint; a PID the operating system denied gets the elevation hint and no
\* --force hint; an already-exited process gets neither.
C24_HintMatchesCause ==
  cpc = "exit" =>
    /\ (mode = "pid" /\ refusal # NoRefusal) => reports = <<>>
    /\ \A i \in 1..Len(reports) :
         LET r == reports[i] IN
         /\ (~r.ok /\ ~Invoked(r.pid)) => (r.forceHint /\ ~r.elevationHint)
         /\ (~r.ok /\ OsDenied(r.pid)) => (r.elevationHint /\ ~r.forceHint)
         /\ (r.ok /\ r.text = "already-exited") => (~r.forceHint /\ ~r.elevationHint)

\* ---- C25: dry runs

\* perPid.set(l.pid, { ok: true, method: 'dry-run' })
WouldKill == [ok |-> TRUE, method |-> "dry-run", message |-> "undefined",
              errorCode |-> "undefined"]

FirstPos(p) ==
  LET at == {i \in 1..Len(batch) : batch[i].pid = p /\ batch[i].protocol \in ballowed}
  IN  IF at = {} THEN 0 ELSE CHOOSE i \in at : \A j \in at : i <= j

KillsInListOrder ==
  mode \in {"ports", "names", "tui"} =>
    /\ \A a, b \in 1..Len(killCalls) : killCalls[a] = killCalls[b] => a = b
    /\ \A a \in 1..Len(killCalls) : FirstPos(killCalls[a]) > 0
    /\ \A a, b \in 1..Len(killCalls) :
         a < b => FirstPos(killCalls[a]) < FirstPos(killCalls[b])

OneKillAtATime ==
  kpc # "idle" =>
    /\ cpc = "await"
    /\ killCalls # <<>>
    /\ kroot = killCalls[Len(killCalls)]

\* C26: in one kill batch Killer.kill is invoked at most once per distinct
\* PID, whatever the number of listeners of the PID; a kill is invoked only
\* when no kill is running; and the PIDs are killed in the order of their
\* first occurrence in the list handed to killResolvedListeners.
C26_OneKillPerPidInOrder ==
  /\ [](KillsInListOrder /\ OneKillAtATime)
  /\ [][killCalls' # killCalls =>
          /\ kpc = "idle"
          /\ kpc' = "entry"
          /\ killCalls' = Append(killCalls, kroot')]_vars

\* A batch of two listeners of one PID, reported on two lines after one kill
C26_Witness ==
  /\ mode \in {"ports", "tui"}
  /\ cpc = "exit"
  /\ Len(Actionable) = 2
  /\ Actionable[1].pid = Actionable[2].pid
  /\ killCalls = <<Actionable[1].pid>>
  /\ Len(reports) = 2

\* ---- C27: interrupts and the exit status

\* C27: a selection session ended by the Ctrl-C keystroke or by SIGINT is
\* cancelled and leaves the exit status at 130; one ended by Esc is cancelled
\* and leaves the exit status as it was (0); after a cancellation the
\* orchestrator invokes no kill, sends nothing and reports nothing.
C27_InterruptExits130 ==
  /\ (EndedBy("Ctrl-C") \/ EndedBy("SIGINT")) =>
       (tresult = CancelledEmpty /\ exitCode = 130)
  /\ EndedBy("Esc") => (tresult = CancelledEmpty /\ exitCode = 0)
  /\ (tresult.resolved /\ tresult.cancelled) =>
       /\ killCalls = <<>>
       /\ log = <<>>
       /\ kpc = "idle"
       /\ batch = <<>>
       /\ reports = <<>>
       /\ cpc \in {"select", "exit"}

\* kkp has returned from a session the Ctrl-C keystroke ended with an item
\* toggled on
C27_Witness ==
  /\ cpc = "exit"
  /\ EndedBy("Ctrl-C")
  /\ selected # {}
  /\ exitCode = 130
  /\ killCalls = <<>>

\* The signal sends of the log addressed to p, as <<signal, errno>> in order
SendsTo(p) == OpsOf(SignalsTo(p))

\* C28: in the POSIX protocol the result of a failed send follows from the
\* error alone, whatever the timeout and the mode.  No SIGKILL send follows a
\* SIGTERM send that failed (every SIGKILL send to a pid comes right after a
\* delivered SIGTERM to it); a SIGTERM send failing with ESRCH gives {ok:true},
\* one failing with another error {ok:false, method:"SIGTERM"} with that
\* error's code; a SIGKILL send failing
\* with ESRCH gives {ok:true, method:"SIGTERM"}, one failing with another
\* error {ok:false, method:"SIGKILL"} with that error's code.
C28_SendFailureDecidesResult ==
  /\ \A p \in TreePids : \A i \in 1..Len(SendsTo(p)) :
       SendsTo(p)[i][1] = "SIGKILL" => (i > 1 /\ SendsTo(p)[i - 1] = <<"SIGTERM", "ok">>)
  /\ (Posix /\ kpc = "done" /\ kalive = "alive") =>
       LET sends == SendsTo(kroot)
           last  == sends[Len(sends)]
       IN /\ sends # <<>>
          /\ last = <<"SIGTERM", "ESRCH">> =>
               kres = Result(kroot, TRUE, "already-exited", "undefined", "undefined")
          /\ (last[1] = "SIGTERM" /\ last[2] \notin {"ok", "ESRCH"}) =>
               kres = Result(kroot, FALSE, "SIGTERM", "kill " \o last[2], last[2])
          /\ last = <<"SIGKILL", "ESRCH">> =>
               kres = Result(kroot, TRUE, "SIGTERM", "undefined", "undefined")
          /\ (last[1] = "SIGKILL" /\ last[2] \notin {"ok", "ESRCH"}) =>
               kres = Result(kroot, FALSE, "SIGKILL", "kill " \o last[2], last[2])

\* A tree kill in which the SIGTERM send to a descendant was refused and the
\* SIGKILL send to the root was refused after a delivered SIGTERM
C28_Witness ==
  /\ Posix /\ kpc = "done" /\ ktree
  /\ \E p \in TreePids \ {kroot} : SendsTo(p) = << <<"SIGTERM", "EPERM">> >>
  /\ SendsTo(kroot) = << <<"SIGTERM", "ok">>, <<"SIGKILL", "EPERM">> >>
  /\ kres.errorCode = "EPERM" /\ kres.method = "SIGKILL" /\ ~kres.ok

\* The pids of the SIGTERM sends of the log, in order: one per killSingle run
TermPids ==
  LET Terms == SelectSeq(log, LAMBDA e : e.op = "SIGTERM")
  IN [i \in 1..Len(Terms) |-> Terms[i].pid]

\* A POSIX tree kill whose enumeration came to its end and whose kill loop runs
TreeKilling ==
  /\ Posix /\ ktree /\ kalive = "alive"
  /\ kpc \notin {"entry", "tree"}
  /\ \A i \in 1..Len(log) : log[i].op = "ps" => log[i].res = "ok"

\* The order tree mode owes: the descendants, last discovered first, then the root
TreeOrder == Reverse(WithoutRoot(bfsOut)) \o <<kroot>>

\* C29: in POSIX tree mode the protocol runs are started in the order of
\* TreeOrder, each one ended before the next starts (a SIGKILL send goes to
\* the pid of the latest SIGTERM send), whatever the results of the earlier
\* ones are; when kill returns, every enumerated descendant and then the root
\* has had its run, and the result is that of the root's run.
C29_DescendantsFirstReversed ==
  TreeKilling =>
    /\ Len(TermPids) <= Len(TreeOrder)
    /\ TermPids = SubSeq(TreeOrder, 1, Len(TermPids))
    /\ \A i \in 1..Len(log) : log[i].op = "SIGKILL" =>
         \E j \in 1..(i - 1) :
            /\ log[j] = [pid |-> log[i].pid, op |-> "SIGTERM", res |-> "ok", waited |-> 0]
            /\ \A k \in (j + 1)..(i - 1) : log[k].op # "SIGTERM"
    /\ kpc = "done" =>
         /\ TermPids = TreeOrder
         /\ kres.pid = kroot
         /\ kres.errorCode =
              LET last == SendsTo(kroot)[Len(SendsTo(kroot))]
              IN IF last[2] \in {"ok", "ESRCH"} THEN "undefined" ELSE last[2]

\* A tree kill of 7 that discovered 8 and then 9: 9 was refused the SIGTERM,
\* 8 and then 7 were killed all the same, and the result is the root's success
C29_Witness ==
  /\ TreeKilling /\ kpc = "done"
  /\ WithoutRoot(bfsOut) = <<8, 9>>
  /\ SendsTo(9) = << <<"SIGTERM", "EPERM">> >>
  /\ TermPids = <<9, 8, kroot>>
  /\ kres.ok /\ kres.pid = kroot

\* A POSIX tree kill that returned after a ps run of its enumeration failed
EnumerationFailed ==
  /\ Posix /\ ktree /\ kalive = "alive" /\ kpc = "done"
  /\ \E i \in 1..Len(log) : log[i].op = "ps" /\ log[i].res = "throw"

\* C30: when listing the children of one process fails during the traversal,
\* the descendants discovered up to then still get their protocol runs, all
\* of them before the root's, and the root gets its run.
C30_DiscoveredStillKilled ==
  EnumerationFailed =>
    /\ TermPids[Len(TermPids)] = kroot
    /\ \A i \in 1..Len(WithoutRoot(bfsOut)) :
         \E j \in 1..(Len(TermPids) - 1) : TermPids[j] = WithoutRoot(bfsOut)[i]

\* How many entries of a sequence equal x
Times(s, x) == Cardinality({i \in 1..Len(s) : s[i] = x})

\* The pids whose children the enumeration asked ps for, in order
PsPids ==
  LET Asked == SelectSeq(log, LAMBDA e : e.op = "ps")
  IN [i \in 1..Len(Asked) |-> Asked[i].pid]

\* C31: in a POSIX tree kill, whatever ps reports (cycles, a child under two
\* parents), the children of each pid are asked for at most once, the list of
\* descendants holds neither the root nor any pid twice, and no pid gets more
\* than one protocol run.
C31_EachPidOnce ==
  (Posix /\ ktree) =>
    /\ \A p \in TreePids : Times(PsPids, p) <= 1
    /\ Times(WithoutRoot(bfsOut), kroot) = 0
    /\ \A p \in TreePids : Times(WithoutRoot(bfsOut), p) <= 1
    /\ \A p \in TreePids : Times(TermPids, p) <= 1

\* The execFile invocations of a command, as positions of execs
RunsOf(cmd) == {i \in 1..Len(execs) : execs[i].cmd = cmd}

\* ss gave the parser at least one record with a pid
SsYielded == \E i \in RunsOf("ss") : execs[i].rows > 0

\* C32: on Linux lsof is run only after the ss runs of the call, and only when
\* none of them yielded a record (ss not found, or no row of its output with
\* a pid=<n> token); a call in which ss yielded a record never runs lsof and
\* returns records of ss alone.
C32_LsofOnlyAfterEmptySs ==
  platform = "linux" =>
    /\ \A i \in RunsOf("lsof") :
         /\ ~SsYielded
         /\ \A j \in RunsOf("ss") : j < i
         /\ \/ \E j \in RunsOf("ss") : execs[j].outcome = "ENOENT"
            \/ \A q \in {Queries[k] : k \in 1..Len(Queries)} :
                 \E j \in RunsOf("ss") : execs[j].query = q /\ execs[j].outcome = "exit"
    /\ SsYielded =>
         /\ RunsOf("lsof") = {}
         /\ fpc = "returned" =>
              /\ fres # <<>>
              /\ \A k \in 1..Len(fres) : fres[k].source = "ss"

\* listAll on Linux: ss ran for both protocols and printed rows without a
\* pid, lsof ran after it and its records are the result
C32_Witness ==
  /\ platform = "linux" /\ fpc = "returned" /\ fop.kind = "listAll"
  /\ \E i \in RunsOf("ss") : execs[i].outcome = "exit"
  /\ ~SsYielded
  /\ RunsOf("lsof") # {}
  /\ fres # <<>>
  /\ \A k \in 1..Len(fres) : fres[k].source = "lsof"

\* A field of the listener, lowercased, equals or contains an entry of the
\* platform's denylist
FieldDenylisted(f) ==
  /\ f # Undefined
  /\ IF platform = "win32" THEN WindowsNameHit(ToLowerCase(f))
     ELSE PosixNameHit(ToLowerCase(f))

\* C33: protectionFor answers protected whenever the process name or the
\* command of the listener, lowercased, equals or contains an entry of the
\* platform's denylist, also when both fields are present and the command
\* alone holds the entry.
C33_NameOrCommandDenylisted ==
  (protOut # NoVerdict
     /\ (FieldDenylisted(protInput.processName) \/ FieldDenylisted(protInput.command)))
  => protOut.protected

\* enrichFromProc is over: every task has run to its end
Enriched == fpc = "enrich" /\ \A p \in Pids : etask[p].pc \in {"none", "done"}

\* C34: whatever the order in which the tasks of one enrichFromProc run, when
\* they are over every pid whose status file gave a uid that the account
\* table holds has that uid's username in the user field of its listeners.
C34_KnownUidGetsUser ==
  Enriched =>
    \A p \in UniqPids(fout) :
      (etask[p].uid # Undefined /\ MapGet(uidToUser, etask[p].uid) # Undefined) =>
        \A i \in 1..Len(fout) :
          fout[i].pid = p => fout[i].user = MapGet(uidToUser, etask[p].uid)

\* The fields of a listener that enrichment leaves alone
Identity(l) ==
  [protocol |-> l.protocol, port |-> l.port, pid |-> l.pid,
   localAddress |-> l.localAddress, raw |-> l.raw, source |-> l.source]

\* C35: every step of an enrichment (enrichFromProc on Linux, enrichWindows
\* with PowerShell or tasklist) leaves the list of listeners with the same
\* records in the same order, each with its protocol, port, pid and local
\* address; a field among processName, command and user that was populated
\* stays populated; and the enrichment never throws, whatever its sources
\* give (unreadable files, maps without entries, entries with absent or empty
\* fields).
C35_EnrichmentOnlyFills ==
  [][ /\ Len(fout') = Len(fout)
      /\ \A i \in 1..Len(fout) :
           /\ Identity(fout'[i]) = Identity(fout[i])
           /\ Truthy(fout[i].processName) => Truthy(fout'[i].processName)
           /\ Truthy(fout[i].command) => Truthy(fout'[i].command)
           /\ Truthy(fout[i].user) => Truthy(fout'[i].user)
      /\ fpc' # "thrown" /\ ferr' = "none" ]_vars

\* A Linux enrichment that wrote the command line of an lsof row and kept the
\* row's user, the uid of the process having no account
C35_Witness ==
  /\ platform = "linux" /\ Enriched
  /\ \E i \in 1..Len(fout) :
       /\ fout[i].source = "lsof"
       /\ Truthy(fout[i].user)
       /\ etask[fout[i].pid].uid = UidNoAccount
       /\ etask[fout[i].pid].cmdline = fout[i].command
       /\ Truthy(fout[i].command)

\* C36: every record a parser returns has an integer port in 1..65535 and a
\* pid that is a finite non-negative integer.
C36_RecordsHavePortAndPid ==
  ppc # "input" =>
    \A i \in 1..Len(pout) :
      /\ pout[i].port \in 1..65535
      /\ IsFinite(pout[i].pid) /\ pout[i].pid >= 0

\* C37: parseLsof on the header line followed by a row in lsof's column
\* layout (COMMAND PID USER FD TYPE DEVICE SIZE/OFF NODE NAME) for a listening
\* TCP socket returns exactly one record, with the row's protocol, port, pid,
\* process name and local address `*`.
C37_TypicalLsofRowAccepted ==
  (ptool = "lsof" /\ ppc # "input" /\ ptext = <<LsofHeader, LsofNodeLine>>) =>
    /\ Len(pout) = 1
    /\ pout[1].protocol = "tcp"
    /\ pout[1].port = 80
    /\ pout[1].pid = 8
    /\ pout[1].processName = N_node
    /\ pout[1].localAddress = <<"*">>

\* Some actionable listener of pid p in the batch is classified protected
ProtectedInBatch(p) ==
  \E i \in 1..Len(Actionable) :
     Actionable[i].pid = p /\ ProtectionFor(Actionable[i]).protected

\* C38: in a batch without --force no kill is invoked for a pid that has an
\* actionable listener classified protected, wherever that listener stands in
\* the list.
C38_ProtectedListenerShieldsPid ==
  ~force => \A i \in 1..Len(killCalls) : ~ProtectedInBatch(killCalls[i])

\* C39: every listener findByPort(port, {protocols}) returns has the
\* requested port and one of the requested protocols.
C39_FoundOnRequestedPort ==
  (fpc = "returned" /\ fop.kind = "findByPort") =>
     \A i \in 1..Len(fres) :
        fres[i].port = fop.port /\ fres[i].protocol \in fop.protocols

\* The steps that end in render(): the first frame of a session and every
\* keystroke that leaves the session open
RendersFrame ==
  (SelectListeners /\ tpc' = "active") \/ KeyMove \/ KeyHome \/ KeyEnd \/ KeySpace

\* const slice = items.slice(state.top, state.top + rows): the cursor's item
\* is one of the rows drawn
CursorDrawn == top <= index /\ index < top + VisibleRows

\* C40: in every frame that is rendered the cursor's item is among the rows
\* drawn, whatever navigation keys, Space toggles and changes of the terminal
\* height came before.
C40_CursorAlwaysDrawn == [][RendersFrame => CursorDrawn']_vars

=============================================================================
